---- MODULE Spec2Model ----
\* gmail-assistant: the durable job queue (src/db/models.py JobRepository), the
\* worker pool that consumes it (src/tasks/workers.py WorkerPool) and the
\* change-feed reader that fills it (src/sync/engine.py SyncEngine).
\*
\* The specifications share the variables:
\*   Spec      the running program: scheduler and handlers enqueue, N workers
\*             claim and process, time passes and old jobs are collected;
\*   PoolSpec  the worker pool across shutdown and restart;
\*   StoreSpec the JobRepository driven call by call, as tests/test_db.py does;
\*   FeedSpec  SyncEngine.sync_user reading the provider's change feed;
\*   LabelSpec sync_user over a feed of label changes;
\*   FaultSpec sync_user when an enqueue can fail;
\*   ReconSpec sync_user with its branch into full_sync;
\*   ReworkSpec rework requests read by sync_user and run by the workers;
\*   LifeSpec   the job handlers and lifecycle transitions run one at a time;
\*   RetrySpec  one Gmail request inside execute_with_retry (src/gmail/retry.py);
\*   LoopSpec   the worker coroutines on their one event loop, with fairness;
\*   SchedSpec  the scheduler's loops beside the workers, with fairness;
\*   RaceSpec   the handlers of one thread run by several workers at once.
EXTENDS Integers, Sequences, FiniteSets, TLC

\* ---------------------------------------------------------------- bounds
MaxJobs == 2         \* rows ever inserted into the jobs table
MaxTime == 1         \* CURRENT_TIMESTAMP runs over 0..MaxTime
NumWorkers == 2      \* worker coroutines of the pool
MaxDays == 1         \* retention windows cleanup_old is called with: 0..MaxDays
MaxCalls == 7        \* StoreSpec: calls made on the JobRepository

\* ------------------------------------------------------ program constants
DefaultMaxAttempts == 3   \* jobs.max_attempts column default
JobMaxAttempts == 3       \* Job dataclass default, used by the worker
NULL == -1                \* SQL NULL / Python None in a timestamp column

NoError == "NULL"
NoJob == 0
Users == {1}
Errors == {"e1"}
HandlerTypes ==
    {"sync", "classify", "draft", "cleanup", "rework", "manual_draft", "agent_process"}
Workers == 1..NumWorkers

VARIABLES
    jobs,      \* the jobs table: id -> row
    next_id,   \* next row id the table hands out
    now,       \* the clock behind CURRENT_TIMESTAMP
    workers,   \* worker coroutine -> [pc, job]: the Job object it holds
    running,   \* WorkerPool._running / the pool's tasks are alive
    hist,      \* history, per job id: claim_next returns and handler raises
    last,      \* StoreSpec: the last call made, [op, id, arg, pre]
    calls,     \* StoreSpec: the number of calls made so far
    history,   \* the provider's change feed of the owner: record id = position
    cursor,    \* sync_state.last_history_id of the owner
    sync,      \* the sync_user call in progress (or the last one finished)
    emails,    \* the emails table of the owner: thread -> conversation record
    mail,      \* the owner's mailbox: its drafts and the labels on each thread
    req,       \* the execute_with_retry call in progress
    sched,     \* the scheduler's loops: the fallback tick in progress, ticks made
    asked      \* RaceSpec: thread -> calls made to the external classifier for it

feedVars == <<history, cursor, sync, emails, mail, req, sched, asked>>
vars == <<jobs, next_id, now, workers, running, hist, last, calls, history, cursor, sync, emails,
         mail, req, sched, asked>>

\* ------------------------------------------------------------ job rows
EmptyPayload ==
    [message_id |-> "", thread_id |-> "", action |-> "", profile |-> "", route_rule |-> "",
     force_full |-> FALSE]

NewJobRow(job_type, user_id, payload) ==
    [job_type |-> job_type, user_id |-> user_id, payload |-> payload,
     status |-> "pending", attempts |-> 0, max_attempts |-> DefaultMaxAttempts,
     error_message |-> NoError,
     created_at |-> now, completed_at |-> NULL]

Terminal(row) == row.status \in {"completed", "failed"}

NoRow == [status |-> "absent"]

IdleWorker == [pc |-> "idle", job |-> NoJob]

NoNotified == -1          \* notified_history_id None or ""

Threads == {"t1", "t2"}

\* no row of the emails table for the thread
NoEmail == [exists |-> FALSE, status |-> "", draft_id |-> 0, rework_count |-> 0]

\* an empty mailbox view: no draft, no label of ours on any thread
NoMail == [drafts |-> {}, labels |-> [th \in Threads |-> {}]]

\* no execute_with_retry call in progress
NoReq == [pc |-> "idle"]

\* the fallback loop before its first tick, asleep
NoSched == [pc |-> "sleeping", users |-> {}, active |-> {}, queued |-> <<>>,
            ticks |-> 0, fulls |-> 0, raised |-> FALSE]

\* the classifier has not been called
NoAsked == [th \in Threads |-> 0]

IdleSync == [pc |-> "idle", first |-> 1, upto |-> 0, idx |-> 1, seen |-> {},
             notified |-> NoNotified, enq |-> {}]

\* JobRepository.enqueue: INSERT INTO jobs (job_type, user_id, payload)
Inserted(job_type, user_id, payload) ==
    [j \in DOMAIN jobs \cup {next_id} |->
        IF j = next_id THEN NewJobRow(job_type, user_id, payload) ELSE jobs[j]]

HistInserted == [j \in DOMAIN hist \cup {next_id} |->
                    IF j = next_id THEN [claims |-> 0, raises |-> 0, abandoned |-> FALSE] ELSE hist[j]]

\* mutant: the WHERE clause without its status test
EligibleAnyStatus(j, job_type) ==
    /\ jobs[j].attempts < jobs[j].max_attempts
    /\ (job_type # "" => jobs[j].job_type = job_type)

\* JobRepository.claim_next: the WHERE clause of the inner SELECT
Eligible(j, job_type) ==
    /\ jobs[j].status = "pending"
    /\ jobs[j].attempts < jobs[j].max_attempts
    /\ (job_type # "" => jobs[j].job_type = job_type)

\* mutant: LIMIT 1 without the ORDER BY
ClaimCandidatesUnordered(job_type) ==
    {j \in DOMAIN jobs : Eligible(j, job_type)}

\* ... ORDER BY created_at LIMIT 1: a row no eligible row precedes (rows of the
\* same second tie, and the statement may return any of them)
ClaimCandidates(job_type) ==
    {j \in DOMAIN jobs :
        /\ Eligible(j, job_type)
        /\ \A k \in DOMAIN jobs :
              Eligible(k, job_type) => jobs[j].created_at <= jobs[k].created_at}

\* mutant: the claim counts the attempt and leaves the row pending
ClaimedLeavesPending(j) ==
    [jobs EXCEPT ![j].attempts = @ + 1]

\* the UPDATE ... SET of claim_next (it also stamps started_at, a column that
\* nothing reads and the rows of the model leave out)
Claimed(j) ==
    [jobs EXCEPT ![j].status = "running",
                 ![j].attempts = @ + 1]

\* mutant: the Job object built from the row as it was before the UPDATE
JobObjectStale(j, row) ==
    [id |-> j, job_type |-> row.job_type, user_id |-> row.user_id,
     payload |-> row.payload, status |-> "running", attempts |-> row.attempts - 1,
     max_attempts |-> JobMaxAttempts]

\* the Job object claim_next builds from the returned row (max_attempts is not
\* passed, so the dataclass default stands)
JobObject(j, row) ==
    [id |-> j, job_type |-> row.job_type, user_id |-> row.user_id,
     payload |-> row.payload, status |-> "running", attempts |-> row.attempts,
     max_attempts |-> JobMaxAttempts]

\* JobRepository.complete
Completed(j) ==
    IF j \in DOMAIN jobs
    THEN [jobs EXCEPT ![j].status = "completed", ![j].completed_at = now]
    ELSE jobs

\* JobRepository.fail
Failed(j, error) ==
    IF j \in DOMAIN jobs
    THEN [jobs EXCEPT ![j].status = "failed", ![j].error_message = error,
                      ![j].completed_at = now]
    ELSE jobs

\* mutant: a retry that gives the job its attempts back
RetriedResetsAttempts(j, error) ==
    IF j \in DOMAIN jobs
    THEN [jobs EXCEPT ![j].status = "pending", ![j].error_message = error,
                      ![j].attempts = 0]
    ELSE jobs

\* JobRepository.retry
Retried(j, error) ==
    IF j \in DOMAIN jobs
    THEN [jobs EXCEPT ![j].status = "pending", ![j].error_message = error]
    ELSE jobs

\* mutant: the retention window measured from created_at, whatever the status
ExpiredByCreation(j, days) ==
    jobs[j].created_at < now - days

\* JobRepository.cleanup_old: the rows the DELETE matches
Expired(j, days) ==
    /\ jobs[j].status \in {"completed", "failed"}
    /\ jobs[j].completed_at # NULL
    /\ jobs[j].completed_at < now - days

RowOf(j) == IF j \in DOMAIN jobs THEN jobs[j] ELSE NoRow

Init ==
    /\ jobs = <<>>
    /\ next_id = 1
    /\ now = 0
    /\ workers = [w \in Workers |-> IdleWorker]
    /\ running = TRUE
    /\ hist = <<>>
    /\ last = [op |-> "init", id |-> NoJob, arg |-> "", pre |-> NoRow]
    /\ calls = 0
    /\ history = <<>>
    /\ cursor = 0
    /\ sync = IdleSync
    /\ emails = [th \in Threads |-> NoEmail]
    /\ mail = NoMail
    /\ req = NoReq
    /\ sched = NoSched
    /\ asked = NoAsked

\* one more call on the repository, recorded with the row it was aimed at
Call(op, id, arg, pre) ==
    /\ calls < MaxCalls
    /\ calls' = calls + 1
    /\ last' = [op |-> op, id |-> id, arg |-> arg, pre |-> pre]

\* time passes
AdvanceClock ==
    /\ now < MaxTime
    /\ now' = now + 1
    /\ UNCHANGED <<jobs, next_id, workers, running, hist, feedVars>>

\* JobRepository.cleanup_old(days)
DeleteExpired(days) ==
    /\ jobs' = [j \in {k \in DOMAIN jobs : ~Expired(k, days)} |-> jobs[j]]
    /\ UNCHANGED <<next_id, now, workers, running, hist, feedVars>>

\* =================================================================== Spec
\* The running program.

Tick == AdvanceClock /\ UNCHANGED <<last, calls, emails, mail, req, sched, asked>>

CleanupOld == \E days \in 0..MaxDays : DeleteExpired(days) /\ UNCHANGED <<last, calls, emails, mail, req, sched, asked>>

\* Scheduler._enqueue_fallback_syncs: a sync job for an active user
SchedulerEnqueue ==
    \E u \in Users :
        /\ running
        /\ next_id <= MaxJobs
        /\ jobs' = Inserted("sync", u, EmptyPayload)
        /\ hist' = HistInserted
        /\ next_id' = next_id + 1
        /\ UNCHANGED <<now, workers, running, last, calls, feedVars>>

\* WorkerPool._worker_loop: claim the next job, or sleep when there is none
WorkerClaim(w) ==
    /\ running
    /\ workers[w].pc = "idle"
    /\ IF ClaimCandidates("") = {}
       THEN UNCHANGED vars
       ELSE \E j \in ClaimCandidates("") :
              /\ jobs' = Claimed(j)
              /\ workers' = [workers EXCEPT
                    ![w] = [pc |-> "processing", job |-> JobObject(j, Claimed(j)[j])]]
              /\ hist' = [hist EXCEPT ![j].claims = @ + 1]
              /\ UNCHANGED <<next_id, now, running, last, calls, feedVars>>

\* the jobs a handler enqueues while it runs: sync_user queues the jobs of the
\* change feed, _handle_classify queues the draft
FollowOn(job_type) ==
    CASE job_type = "sync" -> {"classify"}
      [] job_type = "classify" -> {"draft"}
      [] OTHER -> {}

HandlerEnqueue(w) ==
    /\ workers[w].pc = "processing"
    /\ next_id <= MaxJobs
    /\ \E t \in FollowOn(workers[w].job.job_type) :
          jobs' = Inserted(t, workers[w].job.user_id, EmptyPayload)
    /\ hist' = HistInserted
    /\ next_id' = next_id + 1
    /\ UNCHANGED <<now, workers, running, last, calls, feedVars>>

\* mutant: the except branch retries whatever the count
ShouldRetryAlways(job) == TRUE

\* mutant: the last attempt is given away
ShouldRetryOffByOne(job) == job.attempts + 1 < job.max_attempts

\* the test of the except branch: retry while attempts remain
ShouldRetry(job) == job.attempts < job.max_attempts

\* WorkerPool._process_job, from the dispatch to the outcome it reports
ProcessJob(w) ==
    /\ workers[w].pc = "processing"
    /\ LET job == workers[w].job IN
         IF job.user_id \notin Users
         THEN /\ jobs' = Failed(job.id, "User not found")
              /\ hist' = hist
         ELSE IF job.job_type \notin HandlerTypes
         THEN /\ jobs' = Failed(job.id, "Unknown job type")
              /\ hist' = hist
         ELSE \E outcome \in {"return"} \cup Errors :
                IF outcome = "return"
                THEN /\ jobs' = Completed(job.id)
                     /\ hist' = hist
                ELSE /\ jobs' = IF ShouldRetry(job)
                                THEN Retried(job.id, outcome)
                                ELSE Failed(job.id, outcome)
                     /\ hist' = [hist EXCEPT ![job.id].raises = @ + 1]
    /\ workers' = [workers EXCEPT ![w] = IdleWorker]
    /\ UNCHANGED <<next_id, now, running, last, calls, feedVars>>

\* mutant: the cancellation is caught like any exception and the job retried
ShutdownRequeues ==
    /\ running
    /\ running' = FALSE
    /\ workers' = [w \in Workers |-> [pc |-> "cancelled", job |-> workers[w].job]]
    /\ hist' = [j \in DOMAIN hist |->
                  IF \E w \in Workers : workers[w].pc = "processing" /\ workers[w].job.id = j
                  THEN [hist[j] EXCEPT !.abandoned = TRUE]
                  ELSE hist[j]]
    /\ jobs' = [j \in DOMAIN jobs |->
                  IF \E w \in Workers : workers[w].pc = "processing" /\ workers[w].job.id = j
                  THEN [jobs[j] EXCEPT !.status = "pending"]
                  ELSE jobs[j]]
    /\ UNCHANGED <<next_id, now, last, calls, feedVars>>

\* lifespan shutdown: stop() and task.cancel(); CancelledError is no Exception,
\* so _process_job reports nothing for the job a worker holds
Shutdown ==
    /\ running
    /\ running' = FALSE
    /\ workers' = [w \in Workers |-> [pc |-> "cancelled", job |-> workers[w].job]]
    /\ hist' = [j \in DOMAIN hist |->
                  IF \E w \in Workers : workers[w].pc = "processing" /\ workers[w].job.id = j
                  THEN [hist[j] EXCEPT !.abandoned = TRUE]
                  ELSE hist[j]]
    /\ UNCHANGED <<jobs, next_id, now, last, calls, feedVars>>

\* lifespan startup: a new WorkerPool over the same database
Restart ==
    /\ ~running
    /\ running' = TRUE
    /\ workers' = [w \in Workers |-> IdleWorker]
    /\ UNCHANGED <<jobs, next_id, now, hist, last, calls, feedVars>>

Next ==
    \/ Tick
    \/ CleanupOld
    \/ SchedulerEnqueue
    \/ \E w \in Workers : WorkerClaim(w)
    \/ \E w \in Workers : HandlerEnqueue(w)
    \/ \E w \in Workers : ProcessJob(w)

Spec == Init /\ [][Next]_vars

\* =============================================================== PoolSpec
\* The worker pool across shutdown and restart (no clock: every timestamp is 0,
\* so claim_next may take the pending jobs in any order).
PoolNext ==
    \/ SchedulerEnqueue
    \/ \E w \in Workers : WorkerClaim(w)
    \/ \E w \in Workers : HandlerEnqueue(w)
    \/ \E w \in Workers : ProcessJob(w)
    \/ Shutdown
    \/ Restart

PoolSpec == Init /\ [][PoolNext]_vars

\* ============================================================== StoreSpec
\* The JobRepository called directly, one call per step, with any argument.
StoreTypes == {"sync", "classify"}

StoreTick == AdvanceClock /\ Call("tick", NoJob, "", NoRow)

StoreCleanupOld ==
    \E days \in 0..MaxDays :
        DeleteExpired(days) /\ Call("cleanup_old", NoJob, "", NoRow)

StoreEnqueue ==
    \E t \in StoreTypes, u \in Users :
        /\ next_id <= MaxJobs
        /\ jobs' = Inserted(t, u, EmptyPayload)
        /\ hist' = HistInserted
        /\ next_id' = next_id + 1
        /\ Call("enqueue", next_id, t, NoRow)
        /\ UNCHANGED <<now, workers, running, feedVars>>

\* claim_next(job_type): "" stands for no type filter
StoreClaimNext ==
    \E t \in StoreTypes \cup {""} :
        /\ IF ClaimCandidates(t) = {}
           THEN /\ Call("claim_next", NoJob, t, NoRow)
                /\ UNCHANGED <<jobs, hist>>
           ELSE \E j \in ClaimCandidates(t) :
                  /\ jobs' = Claimed(j)
                  /\ hist' = [hist EXCEPT ![j].claims = @ + 1]
                  /\ Call("claim_next", j, t, jobs[j])
        /\ UNCHANGED <<next_id, now, workers, running, feedVars>>

StoreComplete ==
    \E j \in 1..MaxJobs :
        /\ jobs' = Completed(j)
        /\ Call("complete", j, "", RowOf(j))
        /\ UNCHANGED <<next_id, now, workers, running, hist, feedVars>>

StoreFail ==
    \E j \in 1..MaxJobs, e \in Errors :
        /\ jobs' = Failed(j, e)
        /\ Call("fail", j, e, RowOf(j))
        /\ UNCHANGED <<next_id, now, workers, running, hist, feedVars>>

StoreRetry ==
    \E j \in 1..MaxJobs, e \in Errors :
        /\ jobs' = Retried(j, e)
        /\ Call("retry", j, e, RowOf(j))
        /\ UNCHANGED <<next_id, now, workers, running, hist, feedVars>>

StoreNext ==
    \/ StoreTick
    \/ StoreCleanupOld
    \/ StoreEnqueue
    \/ StoreClaimNext
    \/ StoreComplete
    \/ StoreFail
    \/ StoreRetry

StoreSpec == Init /\ [][StoreNext]_vars

\* =============================================================== FeedSpec
\* SyncEngine.sync_user over the provider's change feed.

MaxHistory == 2       \* change records the provider ever issues
MaxFeedJobs == 4      \* FeedSpec: rows ever inserted into the jobs table

\* the mailbox: messages, the thread of each, whether it carries INBOX, and the
\* route the router gives it
Messages == {"m1", "m2", "m3", "m4", "m5"}
ThreadOf(m) == IF m \in {"m1", "m2", "m3"} THEN "t1" ELSE "t2"
InInbox(m) == m # "m5"
RouteOf(m) == IF m = "m3" THEN "agent" ELSE "pipeline"

\* Router.route: the decision for a message
Route(m) ==
    IF RouteOf(m) = "agent"
    THEN [route_name |-> "agent", profile_name |-> "p1", rule_name |-> "r1"]
    ELSE [route_name |-> "pipeline", profile_name |-> "", rule_name |-> "default_fallback"]

\* HistoryRecord.from_api: a label item carries message_id and label_ids, and
\* no thread_id
LabelItem(m, labels) == [message_id |-> m, label_ids |-> labels, has_thread |-> FALSE]

\* item.get("thread_id", msg_id)
ItemThread(item) == IF item.has_thread THEN item.thread_id ELSE item.message_id

Enq(acc, key, job_type, payload) ==
    [seen |-> acc.seen \cup {key},
     out |-> Append(acc.out, [job_type |-> job_type, payload |-> payload])]

\* mutant: the job is queued whether or not its key was seen
AddedMessageNoDedup(m, acc) ==
    IF ~InInbox(m)
    THEN acc
    ELSE LET decision == Route(m)
             job_type == IF decision.route_name = "agent" THEN "agent_process" ELSE "classify"
             payload == [EmptyPayload EXCEPT !.message_id = m, !.thread_id = ThreadOf(m)]
         IN Enq(acc, <<job_type, ThreadOf(m)>>, job_type, payload)

\* _process_history_record, one pass of the messages_added loop (with a router
\* configured)
AddedMessage(m, acc) ==
    IF ~InInbox(m)
    THEN acc
    ELSE LET decision == Route(m)
             job_type == IF decision.route_name = "agent" THEN "agent_process" ELSE "classify"
             payload == IF decision.route_name = "agent"
                        THEN [EmptyPayload EXCEPT !.message_id = m, !.thread_id = ThreadOf(m),
                                                  !.profile = decision.profile_name,
                                                  !.route_rule = decision.rule_name]
                        ELSE [EmptyPayload EXCEPT !.message_id = m, !.thread_id = ThreadOf(m)]
             key == <<job_type, ThreadOf(m)>>
         IN IF key \in acc.seen THEN acc ELSE Enq(acc, key, job_type, payload)

\* one pass of the labels_added loop: three tests in a row, each leaving the
\* pass (continue) when its key was seen
LabelAdded(item, acc) ==
    LET msg_id == item.message_id
        thread_id == ItemThread(item)
        afterDone ==
            IF "done" \in item.label_ids
            THEN IF <<"cleanup_done", thread_id>> \in acc.seen
                 THEN [acc |-> acc, go |-> FALSE]
                 ELSE [acc |-> Enq(acc, <<"cleanup_done", thread_id>>, "cleanup",
                                   [EmptyPayload EXCEPT !.message_id = msg_id,
                                                        !.thread_id = thread_id,
                                                        !.action = "done"]),
                       go |-> TRUE]
            ELSE [acc |-> acc, go |-> TRUE]
        afterRework ==
            IF afterDone.go /\ "rework" \in item.label_ids
            THEN IF <<"rework", thread_id>> \in afterDone.acc.seen
                 THEN [acc |-> afterDone.acc, go |-> FALSE]
                 ELSE [acc |-> Enq(afterDone.acc, <<"rework", thread_id>>, "rework",
                                   [EmptyPayload EXCEPT !.message_id = msg_id]),
                       go |-> TRUE]
            ELSE afterDone
    IN IF afterRework.go /\ "needs_response" \in item.label_ids
       THEN IF <<"manual_draft", thread_id>> \in afterRework.acc.seen
            THEN afterRework.acc
            ELSE Enq(afterRework.acc, <<"manual_draft", thread_id>>, "manual_draft",
                     [EmptyPayload EXCEPT !.message_id = msg_id])
       ELSE afterRework.acc

\* one pass of the messages_deleted loop: no key, always queued
Deleted(m, acc) ==
    [seen |-> acc.seen,
     out |-> Append(acc.out, [job_type |-> "cleanup",
                              payload |-> [EmptyPayload EXCEPT !.message_id = m,
                                                               !.action = "check_sent"]])]

RECURSIVE AddedLoop(_, _)
AddedLoop(msgs, acc) ==
    IF msgs = <<>> THEN acc ELSE AddedLoop(Tail(msgs), AddedMessage(Head(msgs), acc))

RECURSIVE LabelLoop(_, _)
LabelLoop(items, acc) ==
    IF items = <<>> THEN acc ELSE LabelLoop(Tail(items), LabelAdded(Head(items), acc))

RECURSIVE DeletedLoop(_, _)
DeletedLoop(msgs, acc) ==
    IF msgs = <<>> THEN acc ELSE DeletedLoop(Tail(msgs), Deleted(Head(msgs), acc))

\* SyncEngine._process_history_record: the jobs one record queues, in order,
\* and the keys seen after it
ProcessHistoryRecord(record, seen) ==
    DeletedLoop(record.messages_deleted,
        LabelLoop(record.labels_added,
            AddedLoop(record.messages_added, [seen |-> seen, out |-> <<>>])))

\* the rows after a run of enqueue calls
RECURSIVE InsertedAll(_, _, _)
InsertedAll(rows, id, out) ==
    IF out = <<>>
    THEN rows
    ELSE InsertedAll(
            [j \in DOMAIN rows \cup {id} |->
                IF j = id
                THEN NewJobRow(Head(out).job_type, 1, Head(out).payload)
                ELSE rows[j]],
            id + 1, Tail(out))

\* the change records the provider issues in FeedSpec: one new message, or two
\* different ones
AddedRecords ==
    {[messages_added |-> ms, labels_added |-> <<>>, messages_deleted |-> <<>>] :
        ms \in {<<a>> : a \in Messages}
                  \cup {p \in Messages \X Messages : p[1] # p[2]}}

\* the messages the feed has reported as added
Reported ==
    {history[p].messages_added[i] : <<p, i>> \in
        {q \in (1..Len(history)) \X (1..2) : q[2] <= Len(history[q[1]].messages_added)}}

\* the mailbox changes: the provider appends a change record to the feed; a
\* message arrives once
ProviderAddsMessages ==
    \E record \in AddedRecords :
        /\ Len(history) < MaxHistory
        /\ \A i \in 1..Len(record.messages_added) : record.messages_added[i] \notin Reported
        /\ history' = Append(history, record)
        /\ UNCHANGED <<jobs, next_id, now, workers, running, hist, last, calls, cursor, sync, emails, mail, req, sched, asked>>

\* the change records the stored cursor has not passed
Unread == {p \in 1..Len(history) : p > cursor}

\* UserGmailClient.list_history(start): the records after start, or [] when the
\* call failed (the exception is swallowed)
ListHistory(start, ok) ==
    IF ok THEN {p \in 1..Len(history) : p > start} ELSE {}

\* sync_user up to the loop: read the stored state, fetch the records; with no
\* records the cursor is stored and the call returns. A sync state is stored
\* from Init on and force_full is not passed, so the two branches into
\* full_sync are not taken here.
SyncBegin ==
    \E notified \in {NoNotified} \cup 0..Len(history), ok \in BOOLEAN :
        /\ sync.pc # "processing"
        /\ LET records == ListHistory(cursor, ok) IN
             IF records = {}
             THEN /\ cursor' = IF notified # NoNotified THEN notified ELSE cursor
                  /\ sync' = [IdleSync EXCEPT !.pc = "done"]
             ELSE /\ cursor' = cursor
                  /\ sync' = [pc |-> "processing", first |-> cursor + 1,
                              upto |-> Len(history), idx |-> cursor + 1,
                              seen |-> {}, notified |-> notified, enq |-> {}]
        /\ UNCHANGED <<jobs, next_id, now, workers, running, hist, last, calls, history, emails, mail, req, sched, asked>>

\* one pass of the loop over the records
SyncRecord ==
    /\ sync.pc = "processing"
    /\ sync.idx <= sync.upto
    /\ LET r == ProcessHistoryRecord(history[sync.idx], sync.seen)
           n == Len(r.out)
       IN /\ next_id + n - 1 <= MaxFeedJobs
          /\ jobs' = InsertedAll(jobs, next_id, r.out)
          /\ hist' = [j \in DOMAIN hist \cup (next_id..(next_id + n - 1)) |->
                        IF j \in DOMAIN hist THEN hist[j]
                        ELSE [claims |-> 0, raises |-> 0, abandoned |-> FALSE]]
          /\ next_id' = next_id + n
          /\ sync' = [sync EXCEPT !.idx = @ + 1, !.seen = r.seen,
                                  !.enq = @ \cup (next_id..(next_id + n - 1))]
    /\ UNCHANGED <<now, workers, running, last, calls, history, cursor, emails, mail, req, sched, asked>>

\* after the loop: store the new historyId
SyncEnd ==
    /\ sync.pc = "processing"
    /\ sync.idx > sync.upto
    /\ cursor' = IF sync.notified # NoNotified THEN sync.notified ELSE sync.upto
    /\ sync' = [sync EXCEPT !.pc = "done", !.notified = NoNotified]
    /\ UNCHANGED <<jobs, next_id, now, workers, running, hist, last, calls, history, emails, mail, req, sched, asked>>

FeedNext ==
    \/ ProviderAddsMessages
    \/ SyncBegin
    \/ SyncRecord
    \/ SyncEnd

FeedSpec == Init /\ [][FeedNext]_vars

\* ============================================================== LabelSpec
\* sync_user over a feed of label changes.

MaxLabelRecords == 1  \* LabelSpec: change records the provider ever issues

ActionLabels == {"done", "rework", "needs_response"}
LabelMessages == {"m1", "m2", "m4"}
LabelSets == {{"done"}, {"rework"}, {"needs_response"}, {"done", "needs_response"}}

\* the labelsAdded events the provider reports, as from_api hands them on
LabelItems == {LabelItem(m, ls) : m \in LabelMessages, ls \in LabelSets}

\* the change records of LabelSpec: one or two label-added events
LabelRecords ==
    {[messages_added |-> <<>>, labels_added |-> items, messages_deleted |-> <<>>] :
        items \in {<<a>> : a \in LabelItems} \cup (LabelItems \X LabelItems)}

\* the owner changes labels: the provider appends a change record to the feed
ProviderAddsLabels ==
    \E record \in LabelRecords :
        /\ Len(history) < MaxLabelRecords
        /\ history' = Append(history, record)
        /\ UNCHANGED <<jobs, next_id, now, workers, running, hist, last, calls, cursor, sync, emails, mail, req, sched, asked>>

LabelNext ==
    \/ ProviderAddsLabels
    \/ SyncBegin
    \/ SyncRecord
    \/ SyncEnd

LabelSpec == Init /\ [][LabelNext]_vars

\* ============================================================== FaultSpec
\* sync_user when an enqueue can fail (the database raises).

\* the rows and ids after the first n of the enqueue calls of out
RECURSIVE Prefix(_, _)
Prefix(out, n) == IF n = 0 THEN <<>> ELSE <<Head(out)>> \o Prefix(Tail(out), n - 1)

\* mutant: the cursor is stored although the loop was left by an exception
SyncEnqueueFailsStoresCursor ==
    /\ sync.pc = "processing"
    /\ sync.idx <= sync.upto
    /\ LET r == ProcessHistoryRecord(history[sync.idx], sync.seen) IN
         \E k \in 1..Len(r.out) :
            /\ next_id + k - 2 <= MaxFeedJobs
            /\ jobs' = InsertedAll(jobs, next_id, Prefix(r.out, k - 1))
            /\ hist' = [j \in DOMAIN hist \cup (next_id..(next_id + k - 2)) |->
                          IF j \in DOMAIN hist THEN hist[j]
                          ELSE [claims |-> 0, raises |-> 0, abandoned |-> FALSE]]
            /\ next_id' = next_id + k - 1
            /\ sync' = [sync EXCEPT !.pc = "failed", !.notified = NoNotified,
                                    !.enq = @ \cup (next_id..(next_id + k - 2))]
    /\ cursor' = sync.upto
    /\ UNCHANGED <<now, workers, running, last, calls, history, emails, mail, req, sched, asked>>

\* the k-th enqueue of a record raises: the jobs before it are in the table
\* (each enqueue commits on its own), the exception leaves sync_user before the
\* upsert
SyncEnqueueFails ==
    /\ sync.pc = "processing"
    /\ sync.idx <= sync.upto
    /\ LET r == ProcessHistoryRecord(history[sync.idx], sync.seen) IN
         \E k \in 1..Len(r.out) :
            /\ next_id + k - 2 <= MaxFeedJobs
            /\ jobs' = InsertedAll(jobs, next_id, Prefix(r.out, k - 1))
            /\ hist' = [j \in DOMAIN hist \cup (next_id..(next_id + k - 2)) |->
                          IF j \in DOMAIN hist THEN hist[j]
                          ELSE [claims |-> 0, raises |-> 0, abandoned |-> FALSE]]
            /\ next_id' = next_id + k - 1
            /\ sync' = [sync EXCEPT !.pc = "failed", !.notified = NoNotified,
                                    !.enq = @ \cup (next_id..(next_id + k - 2))]
    /\ UNCHANGED <<now, workers, running, last, calls, history, cursor, emails, mail, req, sched, asked>>

\* the mailbox of FaultSpec: two messages of one thread and one of another
FaultMessages == {"m1", "m2", "m4"}

\* the provider appends a change record with new messages of that mailbox
ProviderAddsFew ==
    \E record \in AddedRecords :
        /\ Len(history) < MaxHistory
        /\ \A i \in 1..Len(record.messages_added) :
              /\ record.messages_added[i] \in FaultMessages
              /\ record.messages_added[i] \notin Reported
        /\ history' = Append(history, record)
        /\ UNCHANGED <<jobs, next_id, now, workers, running, hist, last, calls, cursor, sync, emails, mail, req, sched, asked>>

FaultNext ==
    \/ ProviderAddsFew
    \/ SyncBegin
    \/ SyncRecord
    \/ SyncEnqueueFails
    \/ SyncEnd

FaultSpec == Init /\ [][FaultNext]_vars

\* ============================================================== ReconSpec
\* sync_user with its branch into full_sync, for an owner who starts without a
\* stored sync state (a user row exists before onboarding stores the state).

NoCursor == -1            \* sync_state.get returns None

ReconInit ==
    /\ jobs = <<>>
    /\ next_id = 1
    /\ now = 0
    /\ workers = [w \in Workers |-> IdleWorker]
    /\ running = TRUE
    /\ hist = <<>>
    /\ last = [op |-> "init", id |-> NoJob, arg |-> "", pre |-> NoRow]
    /\ calls = 0
    /\ history = <<>>
    /\ cursor = NoCursor
    /\ sync = IdleSync
    /\ emails = [th \in Threads |-> NoEmail]
    /\ mail = NoMail
    /\ req = NoReq
    /\ sched = NoSched
    /\ asked = NoAsked

\* what the provider answers to history.list
FetchOutcomes == {"ok", "too_old", "error"}

\* gmail_client.search("in:inbox ..."): the inbox messages of the mailbox
Scanned == {m \in Reported : InInbox(m)}

\* JobRepository has no method has_pending_for_thread: the call in full_sync
\* raises AttributeError for the first scanned message whose thread has no
\* conversation record
FullSyncRaises == \E m \in Scanned : ~emails[ThreadOf(m)].exists

\* SyncEngine.full_sync: every scanned thread with a record is skipped; the
\* first one without raises, before any enqueue and before the upsert; a scan
\* that gets through stores the historyId of the profile ("0" when get_profile
\* failed and returned {})
FullSync ==
    IF FullSyncRaises
    THEN /\ sync' = [IdleSync EXCEPT !.pc = "full_failed"]
         /\ cursor' = cursor
    ELSE /\ sync' = [IdleSync EXCEPT !.pc = "full_done"]
         /\ \E profile_ok \in BOOLEAN :
               cursor' = IF profile_ok THEN Len(history) ELSE 0

\* sync_user from its first line: full_sync without a stored state, the
\* incremental read otherwise; list_history turns both failures into []
SyncUser ==
    \E notified \in {NoNotified} \cup 0..Len(history), fetch \in FetchOutcomes :
        /\ sync.pc # "processing"
        /\ Call("sync_user", NoJob, IF cursor = NoCursor THEN "no_state" ELSE fetch, NoRow)
        /\ IF cursor = NoCursor
           THEN FullSync
           ELSE LET records == IF fetch = "ok" THEN Unread ELSE {} IN
                  IF records = {}
                  THEN /\ cursor' = IF notified # NoNotified THEN notified ELSE cursor
                       /\ sync' = [IdleSync EXCEPT !.pc = "done"]
                  ELSE /\ cursor' = cursor
                       /\ sync' = [pc |-> "processing", first |-> cursor + 1,
                                   upto |-> Len(history), idx |-> cursor + 1,
                                   seen |-> {}, notified |-> notified, enq |-> {}]
        /\ UNCHANGED <<jobs, next_id, now, workers, running, hist, history, emails, mail, req, sched, asked>>

\* EmailRepository.upsert as _handle_classify calls it: a new row is pending
NewEmail == [exists |-> TRUE, status |-> "pending", draft_id |-> 0, rework_count |-> 0]

\* a worker runs a classify job to its end: claim_next, _handle_classify (the
\* thread gets its conversation record unless it has one), complete
ClassifyRuns ==
    \E j \in DOMAIN jobs :
        /\ jobs[j].job_type = "classify"
        /\ j \in ClaimCandidates("")
        /\ jobs' = [jobs EXCEPT ![j].status = "completed", ![j].attempts = @ + 1,
                                ![j].completed_at = now]
        /\ hist' = [hist EXCEPT ![j].claims = @ + 1]
        /\ LET th == ThreadOf(jobs[j].payload.message_id) IN
             emails' = IF emails[th].exists THEN emails
                       ELSE [emails EXCEPT ![th] = NewEmail]
        /\ UNCHANGED <<next_id, now, workers, running, last, calls, history, cursor, sync, mail, req, sched, asked>>

ReconNext ==
    \/ ProviderAddsFew
    \/ SyncUser
    \/ SyncRecord
    \/ SyncEnd
    \/ ClassifyRuns

ReconSpec == ReconInit /\ [][ReconNext]_vars

\* ============================================================= ReworkSpec
\* A drafted thread whose owner asks for rework: the label change is read by
\* sync_user, the rework jobs are run by the workers.

ReworkLimit == 3          \* handle_rework: if rework_count >= 3

\* thread t1 was classified and drafted
DraftedEmail == [exists |-> TRUE, status |-> "drafted", draft_id |-> 1, rework_count |-> 0]

ReworkInit ==
    /\ jobs = <<>>
    /\ next_id = 1
    /\ now = 0
    /\ workers = [w \in Workers |-> IdleWorker]
    /\ running = TRUE
    /\ hist = <<>>
    /\ last = [op |-> "init", id |-> NoJob, arg |-> "", pre |-> NoRow]
    /\ calls = 0
    /\ history = <<>>
    /\ cursor = 0
    /\ sync = IdleSync
    /\ emails = [th \in Threads |-> IF th = "t1" THEN DraftedEmail ELSE NoEmail]
    /\ mail = NoMail
    /\ req = NoReq
    /\ sched = NoSched
    /\ asked = NoAsked

\* the owner puts the rework label on a message of the drafted thread
ProviderAddsRework ==
    \E m \in {"m1", "m2"} :
        /\ Len(history) < MaxLabelRecords
        /\ history' = Append(history,
              [messages_added |-> <<>>, labels_added |-> <<LabelItem(m, {"rework"})>>,
               messages_deleted |-> <<>>])
        /\ UNCHANGED <<jobs, next_id, now, workers, running, hist, last, calls, cursor, sync, emails, mail, req, sched, asked>>

\* the process dies inside sync_user's loop or right after it, before the
\* upsert: the jobs enqueued so far are in the table, the cursor is not stored
SyncCrashes ==
    /\ sync.pc = "processing"
    /\ sync.enq # {}
    /\ sync' = [sync EXCEPT !.pc = "failed", !.notified = NoNotified]
    /\ UNCHANGED <<jobs, next_id, now, workers, running, hist, last, calls, history, cursor, emails, mail, req, sched, asked>>

\* _handle_rework and handle_rework up to the limit test: no record, the
\* handler returns; at the limit the thread is skipped; below it the worker
\* goes on to generate the draft with the rework_count it has read
ReworkRead(w) ==
    /\ workers[w].pc = "processing"
    /\ workers[w].job.job_type = "rework"
    /\ LET job == workers[w].job
           th == ThreadOf(job.payload.message_id)
       IN IF ~emails[th].exists
          THEN /\ jobs' = Completed(job.id)
               /\ workers' = [workers EXCEPT ![w] = IdleWorker]
               /\ emails' = emails
          ELSE IF emails[th].rework_count >= ReworkLimit
          THEN /\ jobs' = Completed(job.id)
               /\ workers' = [workers EXCEPT ![w] = IdleWorker]
               /\ emails' = [emails EXCEPT ![th].status = "skipped"]
          ELSE /\ jobs' = jobs
               /\ workers' = [workers EXCEPT ![w] =
                     [pc |-> "reworking", job |-> job,
                      rework_count |-> emails[th].rework_count]]
               /\ emails' = emails
    /\ UNCHANGED <<next_id, now, running, hist, last, calls, history, cursor, sync, mail, req, sched, asked>>

\* handle_rework from the new draft on: the old draft is trashed, a new one is
\* created, EmailRepository.increment_rework adds one to the stored count; the
\* handler returns and the job is completed
ReworkWrite(w) ==
    /\ workers[w].pc = "reworking"
    /\ LET job == workers[w].job
           th == ThreadOf(job.payload.message_id)
       IN /\ emails' = [emails EXCEPT ![th].rework_count = @ + 1,
                                      ![th].draft_id = @ + 1,
                                      ![th].status = "drafted"]
          /\ jobs' = Completed(job.id)
    /\ workers' = [workers EXCEPT ![w] = IdleWorker]
    /\ UNCHANGED <<next_id, now, running, hist, last, calls, history, cursor, sync, mail, req, sched, asked>>

ReworkNext ==
    \/ ProviderAddsRework
    \/ SyncBegin
    \/ SyncRecord
    \/ SyncCrashes
    \/ SyncEnd
    \/ \E w \in Workers : WorkerClaim(w)
    \/ \E w \in Workers : ReworkRead(w)
    \/ \E w \in Workers : ReworkWrite(w)

ReworkSpec == ReworkInit /\ [][ReworkNext]_vars

\* =============================================================== LifeSpec
\* The job handlers and the LifecycleManager transitions behind them, run one
\* at a time (worker_concurrency = 1) on the threads of one owner. Every call on
\* the mailbox provider answers or fails; the draft engine returns or raises.

MaxRuns == 6              \* LifeSpec: handler runs

LifeMessages == {"m1", "m2"}
LifeThreads == {ThreadOf(m) : m \in LifeMessages}

\* handle_done: the labels it strips besides INBOX
AiLabels == {"needs_response", "outbox", "rework", "action_required",
             "payment_request", "fyi", "waiting"}

\* ClassifyResult.VALID_CATEGORIES
ValidCategories == {"needs_response", "action_required", "payment_request", "fyi", "waiting"}

\* what litellm.completion gives LLMGateway.classify: a JSON object with a valid
\* category, with an unknown one, without one; text that is no JSON; JSON that
\* is no object; or an exception
LlmReplies == {"needs_response", "fyi", "unknown", "missing", "not_json", "not_object", "failed"}

\* ClassifyResult.parse: the category, or "raise" when data.get does not exist
ParseCategory(reply) ==
    IF reply \in ValidCategories THEN reply
    ELSE IF reply \in {"unknown", "missing", "not_json"} THEN "needs_response"
    ELSE "raise"

\* LLMGateway.classify: every exception of the call or of parse is caught
GatewayClassify(reply) ==
    IF reply = "failed" \/ ParseCategory(reply) = "raise" THEN "needs_response"
    ELSE ParseCategory(reply)

\* mutant: the rule engine's verdict is not consulted
EngineClassifyNoOverride(automated, reply) == GatewayClassify(reply)

\* ClassificationEngine.classify: mail the rules take for automated is never
\* needs_response
EngineClassify(automated, reply) ==
    IF automated /\ GatewayClassify(reply) = "needs_response" THEN "fyi"
    ELSE GatewayClassify(reply)

\* mutant: the notice is added once the count has passed the limit
ReworkNoticeLate(rework_count) == rework_count >= ReworkLimit

\* DraftEngine.rework_draft: the last-automatic-rework notice
ReworkNotice(rework_count) == rework_count + 1 >= ReworkLimit

DraftIds == {d.id : d \in mail.drafts}
ThreadDrafts(th) == {d \in mail.drafts : d.thread = th}

\* UserGmailClient.create_draft: the provider hands out a fresh draft id
NewDraft(th, notice) == [id |-> calls + 1, thread |-> th, notice |-> notice]

\* what a handler run leaves in the log: the LLM was called, the draft carries
\* the notice, what the classifier was given, and whether the fetch of the
\* message or thread or the creation of the draft failed with an error
Quiet == [llm |-> FALSE, notice |-> FALSE, reply |-> "", automated |-> FALSE, failed |-> FALSE]
Asked == [Quiet EXCEPT !.llm = TRUE]
Failing == [Quiet EXCEPT !.failed = TRUE]
AskedFailing == [Asked EXCEPT !.failed = TRUE]

\* one handler run: counted, its name, thread and outcome recorded
Ran(op, th, ret, info) ==
    /\ calls < MaxRuns
    /\ calls' = calls + 1
    /\ last' = [op |-> op, id |-> th, arg |-> ret, pre |-> info]

\* the owner puts a label on the thread
OwnerLabels ==
    \E th \in LifeThreads, l \in {"rework", "needs_response"} :
        /\ emails[th].exists
        /\ l \notin mail.labels[th]
        /\ mail' = [mail EXCEPT !.labels[th] = @ \cup {l}]
        /\ UNCHANGED <<jobs, next_id, now, workers, running, hist, last, calls, history, cursor, sync,
                       emails, req, sched, asked>>

\* the owner sends a draft: it leaves the drafts of the mailbox
OwnerSends ==
    \E d \in mail.drafts :
        /\ mail' = [mail EXCEPT !.drafts = @ \ {d}]
        /\ UNCHANGED <<jobs, next_id, now, workers, running, hist, last, calls, history, cursor, sync,
                       emails, req, sched, asked>>

\* _handle_classify from the classifier call on
Classified(m, th) ==
    \E lab_ok, automated \in BOOLEAN, reply \in LlmReplies :
        LET category == EngineClassify(automated, reply) IN
        /\ Ran("classify", th, category,
               [Asked EXCEPT !.reply = reply, !.automated = automated])
        /\ mail' = [mail EXCEPT !.labels[th] = IF lab_ok THEN @ \cup {category} ELSE @]
        /\ emails' = [emails EXCEPT ![th] = NewEmail]
        /\ IF category = "needs_response"
           THEN /\ jobs' = Inserted("draft", 1,
                       [EmptyPayload EXCEPT !.thread_id = th, !.message_id = m])
                /\ hist' = HistInserted
                /\ next_id' = next_id + 1
           ELSE UNCHANGED <<jobs, next_id, hist>>

\* mutant: the test for an existing record is gone
HandleClassifyNoGuard(m) ==
    /\ \E msg_ok \in BOOLEAN :
        IF ~msg_ok
        THEN /\ Ran("classify", ThreadOf(m), "return", Failing)
             /\ UNCHANGED <<jobs, next_id, hist, emails, mail, sched, asked>>
        ELSE Classified(m, ThreadOf(m))
    /\ UNCHANGED <<now, workers, running, history, cursor, sync, req, sched, asked>>

\* WorkerPool._handle_classify
HandleClassify(m) ==
    /\ \E msg_ok \in BOOLEAN :
        IF ~msg_ok \/ emails[ThreadOf(m)].exists
        THEN /\ Ran("classify", ThreadOf(m), "return", IF msg_ok THEN Quiet ELSE Failing)
             /\ UNCHANGED <<jobs, next_id, hist, emails, mail, sched, asked>>
        ELSE Classified(m, ThreadOf(m))
    /\ UNCHANGED <<now, workers, running, history, cursor, sync, req, sched, asked>>

\* a draft job for the thread is in the table
DraftQueued(th) ==
    \E j \in DOMAIN jobs : jobs[j].job_type = "draft" /\ jobs[j].payload.thread_id = th

\* _handle_draft and _handle_manual_draft from generate_draft on: the engine is
\* called, the thread's drafts are trashed, the new draft is created (a failure
\* raises), the labels move, update_draft records the draft. The engine is the
\* object the pool was built with: one that takes the keywords of the call
\* returns, src/draft/engine.py DraftEngine (no user_id, no gmail_thread_id in
\* its signature) raises TypeError.
Drafted(op, th, rows) ==
    \E engine \in {"ok", "raise"} :
        IF engine = "raise"
        THEN /\ Ran(op, th, "raise", Asked)
             /\ mail' = mail
             /\ emails' = rows
        ELSE \E create_ok \in BOOLEAN :
            IF ~create_ok
            THEN /\ Ran(op, th, "raise", AskedFailing)
                 /\ mail' = [mail EXCEPT !.drafts = @ \ ThreadDrafts(th)]
                 /\ emails' = rows
            ELSE \E mod_ok \in BOOLEAN :
                 /\ Ran(op, th, "return", Asked)
                 /\ mail' = [mail EXCEPT
                        !.drafts = (@ \ ThreadDrafts(th)) \cup {NewDraft(th, FALSE)},
                        !.labels[th] = IF mod_ok THEN (@ \ {"needs_response"}) \cup {"outbox"}
                                       ELSE @]
                 /\ emails' = [rows EXCEPT ![th].status = "drafted",
                                           ![th].draft_id = NewDraft(th, FALSE).id]

\* mutant: the draft handler accepts a record of any status
HandleDraftAnyStatus(th) ==
    /\ DraftQueued(th)
    /\ \E thread_ok \in BOOLEAN :
        IF ~emails[th].exists \/ ~thread_ok
        THEN /\ Ran("draft", th, "return", IF emails[th].exists THEN Failing ELSE Quiet)
             /\ UNCHANGED <<emails, mail, sched, asked>>
        ELSE Drafted("draft", th, emails)
    /\ UNCHANGED <<jobs, next_id, now, workers, running, hist, history, cursor, sync, req, sched, asked>>

\* WorkerPool._handle_draft, run for a draft job of the thread
HandleDraft(th) ==
    /\ DraftQueued(th)
    /\ \E thread_ok \in BOOLEAN :
        IF ~emails[th].exists \/ emails[th].status # "pending" \/ ~thread_ok
        THEN /\ Ran("draft", th, "return",
                    IF emails[th].exists /\ emails[th].status = "pending"
                    THEN Failing ELSE Quiet)
             /\ UNCHANGED <<emails, mail, sched, asked>>
        ELSE Drafted("draft", th, emails)
    /\ UNCHANGED <<jobs, next_id, now, workers, running, hist, history, cursor, sync, req, sched, asked>>

\* WorkerPool._handle_manual_draft: EmailRepository.upsert leaves the status of
\* an existing row alone, update_draft sets it to drafted
HandleManualDraft(m) ==
    /\ \E ok \in BOOLEAN :
        LET th == ThreadOf(m) IN
        IF ~ok \/ (emails[th].exists /\ emails[th].status = "drafted")
        THEN /\ Ran("manual_draft", th, "return", IF ok THEN Quiet ELSE Failing)
             /\ UNCHANGED <<emails, mail, sched, asked>>
        ELSE Drafted("manual_draft", th,
                     IF emails[th].exists THEN emails ELSE [emails EXCEPT ![th] = NewEmail])
    /\ UNCHANGED <<jobs, next_id, now, workers, running, hist, history, cursor, sync, req, sched, asked>>

\* LifecycleManager.handle_done
HandleDone(th) ==
    /\ \E thread_ok \in BOOLEAN :
        IF ~thread_ok
        THEN /\ Ran("handle_done", th, "false", Failing)
             /\ UNCHANGED <<emails, mail, sched, asked>>
        ELSE \E mod_ok \in BOOLEAN :
             /\ Ran("handle_done", th, "true", Quiet)
             /\ mail' = [mail EXCEPT !.labels[th] = IF mod_ok THEN @ \ AiLabels ELSE @]
             /\ emails' = IF emails[th].exists
                          THEN [emails EXCEPT ![th].status = "archived"]
                          ELSE emails
    /\ UNCHANGED <<jobs, next_id, now, workers, running, hist, history, cursor, sync, req, sched, asked>>

\* LifecycleManager.handle_sent_detection: UserGmailClient.get_draft answers
\* None for a draft that is gone and for every failed request alike
HandleSentDetection(th) ==
    /\ IF ~emails[th].exists \/ emails[th].draft_id = 0
       THEN /\ Ran("handle_sent_detection", th, "false", Quiet)
            /\ UNCHANGED <<emails, mail, sched, asked>>
       ELSE \E fetch_ok \in BOOLEAN :
            IF fetch_ok /\ emails[th].draft_id \in DraftIds
            THEN /\ Ran("handle_sent_detection", th, "false", Quiet)
                 /\ UNCHANGED <<emails, mail, sched, asked>>
            ELSE \E mod_ok \in BOOLEAN :
                 /\ Ran("handle_sent_detection", th, "true", Quiet)
                 /\ mail' = [mail EXCEPT !.labels[th] = IF mod_ok THEN @ \ {"outbox"} ELSE @]
                 /\ emails' = [emails EXCEPT ![th].status = "sent"]
    /\ UNCHANGED <<jobs, next_id, now, workers, running, hist, history, cursor, sync, req, sched, asked>>

\* handle_rework at the limit: the thread goes to Action Required and is skipped
ReworkSkipped(th) ==
    \E mod_ok \in BOOLEAN :
        /\ Ran("handle_rework", th, "true", Quiet)
        /\ mail' = [mail EXCEPT !.labels[th] = IF mod_ok
                                               THEN (@ \ {"rework"}) \cup {"action_required"}
                                               ELSE @]
        /\ emails' = [emails EXCEPT ![th].status = "skipped"]

\* handle_rework below the limit: the draft engine reworks the draft, the old
\* draft is trashed, the new one created, the label moved, the count raised.
\* The engine returns or raises as in Drafted (DraftEngine.rework_draft declares
\* no related_context, user_id or gmail_thread_id).
Reworked(th) ==
    LET n == emails[th].rework_count
        old == {d \in mail.drafts : d.id = emails[th].draft_id}
        target == IF n + 1 >= ReworkLimit THEN "action_required" ELSE "outbox"
    IN \E thread_ok \in BOOLEAN :
        IF ~thread_ok
        THEN /\ Ran("handle_rework", th, "false", Failing)
             /\ UNCHANGED <<emails, mail, sched, asked>>
        ELSE \E engine \in {"ok", "raise"} :
            IF engine = "raise"
            THEN /\ Ran("handle_rework", th, "raise", Asked)
                 /\ UNCHANGED <<emails, mail, sched, asked>>
            ELSE \E trash_ok, create_ok \in BOOLEAN :
                LET kept == IF trash_ok THEN mail.drafts \ old ELSE mail.drafts IN
                IF ~create_ok
                THEN /\ Ran("handle_rework", th, "false", AskedFailing)
                     /\ mail' = [mail EXCEPT !.drafts = kept]
                     /\ emails' = emails
                ELSE \E mod_ok \in BOOLEAN :
                     /\ Ran("handle_rework", th, "true",
                            [Asked EXCEPT !.notice = ReworkNotice(n)])
                     /\ mail' = [mail EXCEPT
                            !.drafts = kept \cup {NewDraft(th, ReworkNotice(n))},
                            !.labels[th] = IF mod_ok THEN (@ \ {"rework"}) \cup {target} ELSE @]
                     /\ emails' = [emails EXCEPT ![th].rework_count = @ + 1,
                                                 ![th].draft_id = NewDraft(th, FALSE).id,
                                                 ![th].status = "drafted"]

\* mutant: the limit test is gone
HandleReworkNoLimit(th) ==
    /\ IF ~emails[th].exists
       THEN /\ Ran("handle_rework", th, "false", Quiet)
            /\ UNCHANGED <<emails, mail, sched, asked>>
       ELSE Reworked(th)
    /\ UNCHANGED <<jobs, next_id, now, workers, running, hist, history, cursor, sync, req, sched, asked>>

\* LifecycleManager.handle_rework with a draft engine configured
HandleRework(th) ==
    /\ IF ~emails[th].exists
       THEN /\ Ran("handle_rework", th, "false", Quiet)
            /\ UNCHANGED <<emails, mail, sched, asked>>
       ELSE IF emails[th].rework_count >= ReworkLimit
       THEN ReworkSkipped(th)
       ELSE Reworked(th)
    /\ UNCHANGED <<jobs, next_id, now, workers, running, hist, history, cursor, sync, req, sched, asked>>

\* WorkerPool._handle_cleanup on the job sync_user enqueues for a deleted
\* message: payload {message_id, action: check_sent}, no thread_id
HandleCleanup(m) ==
    LET payload == [EmptyPayload EXCEPT !.message_id = m, !.action = "check_sent"] IN
    IF payload.action = "done" /\ payload.thread_id # ""
    THEN HandleDone(payload.thread_id)
    ELSE IF payload.action = "check_sent" /\ payload.thread_id # ""
    THEN HandleSentDetection(payload.thread_id)
    ELSE /\ Ran("cleanup", ThreadOf(m), "return", Quiet)
         /\ UNCHANGED <<jobs, next_id, now, workers, running, hist, history, cursor, sync,
                        emails, mail, req, sched, asked>>

LifeNext ==
    \/ OwnerLabels
    \/ OwnerSends
    \/ \E m \in LifeMessages : HandleClassify(m)
    \/ \E th \in LifeThreads : HandleDraft(th)
    \/ \E m \in LifeMessages : HandleManualDraft(m)
    \/ \E th \in LifeThreads : HandleDone(th)
    \/ \E th \in LifeThreads : HandleSentDetection(th)
    \/ \E th \in LifeThreads : HandleRework(th)
    \/ \E m \in LifeMessages : HandleCleanup(m)

\* the state of Init, with no handler run so far
LifeInit ==
    /\ jobs = <<>>
    /\ next_id = 1
    /\ now = 0
    /\ workers = [w \in Workers |-> IdleWorker]
    /\ running = TRUE
    /\ hist = <<>>
    /\ last = [op |-> "init", id |-> "", arg |-> "", pre |-> Quiet]
    /\ calls = 0
    /\ history = <<>>
    /\ cursor = 0
    /\ sync = IdleSync
    /\ emails = [th \in Threads |-> NoEmail]
    /\ mail = NoMail
    /\ req = NoReq
    /\ sched = NoSched
    /\ asked = NoAsked

LifeSpec == LifeInit /\ [][LifeNext]_vars

\* ============================================================== RetrySpec
\* gmail/retry.py: one request inside execute_with_retry. req holds the loop's
\* locals (attempt, last_exc), what the request did at each execute()
\* (outcomes) and the time.sleep calls made (slept).
DEFAULT_MAX_RETRIES == 3
DEFAULT_BASE_DELAY == 1
BaseDelays == {DEFAULT_BASE_DELAY, 2}

\* what request.execute() can do: answer, fail below HTTP (DNS, connection,
\* timeout), or raise HttpError with a status
Outcomes == {"ok", "network", "http429", "http500", "http503", "http400", "http404"}

RETRYABLE_STATUS_CODES == {"http429", "http500", "http502", "http503", "http504"}

\* mutant: every HttpError is retried
IsRetryableAnyHttp(exc) == exc # "ok"

\* _is_retryable
IsRetryable(exc) == exc = "network" \/ exc \in RETRYABLE_STATUS_CODES

\* mutant: the delay grows by base_delay each time
BackoffLinear(base_delay, attempt) == base_delay * (attempt + 1)

\* delay = base_delay * (2**attempt)
Backoff(base_delay, attempt) == base_delay * (2 ^ attempt)

\* a caller enters execute_with_retry
RetryCall ==
    /\ req.pc = "idle"
    /\ \E max_retries \in 0..DEFAULT_MAX_RETRIES, base_delay \in BaseDelays :
          req' = [pc |-> "loop", max_retries |-> max_retries, base_delay |-> base_delay,
                  attempt |-> 0, last_exc |-> "", outcomes |-> <<>>, slept |-> <<>>,
                  result |-> ""]
    /\ UNCHANGED <<jobs, next_id, now, workers, running, hist, last, calls,
                   history, cursor, sync, emails, mail, sched, asked>>

\* one pass of `for attempt in range(1 + max_retries)` up to its sleep
RetryAttempt ==
    /\ req.pc = "loop"
    /\ req.attempt < 1 + req.max_retries
    /\ \E outcome \in Outcomes :
         LET tried == [req EXCEPT !.outcomes = Append(@, outcome)] IN
         IF outcome = "ok"
         THEN req' = [tried EXCEPT !.pc = "returned", !.result = outcome]
         ELSE IF ~IsRetryable(outcome)
         THEN req' = [tried EXCEPT !.pc = "raised", !.last_exc = outcome,
                                   !.result = outcome]
         ELSE IF req.attempt < req.max_retries
         THEN req' = [tried EXCEPT !.pc = "sleeping", !.last_exc = outcome]
         ELSE req' = [tried EXCEPT !.last_exc = outcome, !.attempt = @ + 1]
    /\ UNCHANGED <<jobs, next_id, now, workers, running, hist, last, calls,
                   history, cursor, sync, emails, mail, sched, asked>>

\* time.sleep(delay), then the next pass
RetrySleep ==
    /\ req.pc = "sleeping"
    /\ req' = [req EXCEPT !.pc = "loop", !.attempt = @ + 1,
                          !.slept = Append(@, Backoff(req.base_delay, req.attempt))]
    /\ UNCHANGED <<jobs, next_id, now, workers, running, hist, last, calls,
                   history, cursor, sync, emails, mail, sched, asked>>

\* the loop is over: raise last_exc
RetryExhausted ==
    /\ req.pc = "loop"
    /\ req.attempt >= 1 + req.max_retries
    /\ req' = [req EXCEPT !.pc = "raised", !.result = req.last_exc]
    /\ UNCHANGED <<jobs, next_id, now, workers, running, hist, last, calls,
                   history, cursor, sync, emails, mail, sched, asked>>

RetryNext ==
    \/ RetryCall
    \/ RetryAttempt
    \/ RetrySleep
    \/ RetryExhausted

RetrySpec == Init /\ [][RetryNext]_vars

\* =============================================================== LoopSpec
\* The worker coroutines of WorkerPool.start share one event loop: a coroutine
\* runs on the loop's thread until its next await, and the others resume only
\* when the loop's thread is free. What a coroutine awaits through
\* asyncio.to_thread runs on a thread of its own. A worker's pc:
\*   idle        awaiting claim_next or the poll sleep
\*   processing  holds a job, awaiting users.get_by_id
\*   for_user    inside gmail_service.for_user(user.email): no await, the call
\*               (credentials read, token refresh or consent flow, build) runs
\*               on the loop's thread
\*   handler     awaiting the handler's to_thread calls
\* and for_user_stuck / handler_stuck when the collaborator behind the call
\* never answers. At most one worker is stuck at a time.
Stuck(w) == workers[w].pc \in {"for_user_stuck", "handler_stuck"}

\* mutant: for_user awaited through to_thread like every other call
LoopFreeThreaded == TRUE

\* the loop's thread is not inside a call
LoopFree == \A w \in Workers : workers[w].pc \notin {"for_user", "for_user_stuck"}

\* how a collaborator call that starts can go: it answers in the end, or (for
\* one worker at most) it never does
CallFates(w, pc) ==
    {pc} \cup (IF \E v \in Workers \ {w} : Stuck(v) THEN {} ELSE {pc \o "_stuck"})

\* mutant: the except branch only logs
RaisedUnreported(job, error) == jobs

\* the except branch of _process_job
Raised(job, error) ==
    IF ShouldRetry(job) THEN Retried(job.id, error) ELSE Failed(job.id, error)

\* _worker_loop resumes with the row claim_next returned
LoopClaim(w) ==
    /\ LoopFree
    /\ WorkerClaim(w)

\* _process_job resumes with the user row and calls for_user
LoopGetUser(w) ==
    /\ LoopFree
    /\ workers[w].pc = "processing"
    /\ IF workers[w].job.user_id \notin Users
       THEN /\ jobs' = Failed(workers[w].job.id, "User not found")
            /\ workers' = [workers EXCEPT ![w] = IdleWorker]
       ELSE /\ jobs' = jobs
            /\ \E pc \in CallFates(w, "for_user") :
                  workers' = [workers EXCEPT ![w].pc = pc]
    /\ UNCHANGED <<next_id, now, running, hist, last, calls, feedVars>>

\* for_user returns the client or raises; _process_job dispatches the handler
ForUserReturns(w) ==
    /\ workers[w].pc = "for_user"
    /\ LET job == workers[w].job IN
       \E outcome \in {"return"} \cup Errors :
         IF outcome # "return"
         THEN /\ jobs' = Raised(job, outcome)
              /\ hist' = [hist EXCEPT ![job.id].raises = @ + 1]
              /\ workers' = [workers EXCEPT ![w] = IdleWorker]
         ELSE IF job.job_type \notin HandlerTypes
         THEN /\ jobs' = Failed(job.id, "Unknown job type")
              /\ hist' = hist
              /\ workers' = [workers EXCEPT ![w] = IdleWorker]
         ELSE /\ jobs' = jobs
              /\ hist' = hist
              /\ \E pc \in CallFates(w, "handler") :
                    workers' = [workers EXCEPT ![w].pc = pc]
    /\ UNCHANGED <<next_id, now, running, last, calls, feedVars>>

\* the handler's thread is done: _process_job resumes and reports the outcome
HandlerReturns(w) ==
    /\ LoopFree
    /\ workers[w].pc = "handler"
    /\ LET job == workers[w].job IN
       \E outcome \in {"return"} \cup Errors :
         IF outcome = "return"
         THEN /\ jobs' = Completed(job.id)
              /\ hist' = hist
         ELSE /\ jobs' = Raised(job, outcome)
              /\ hist' = [hist EXCEPT ![job.id].raises = @ + 1]
    /\ workers' = [workers EXCEPT ![w] = IdleWorker]
    /\ UNCHANGED <<next_id, now, running, last, calls, feedVars>>

LoopNext ==
    \/ SchedulerEnqueue
    \/ \E w \in Workers : LoopClaim(w)
    \/ \E w \in Workers : LoopGetUser(w)
    \/ \E w \in Workers : ForUserReturns(w)
    \/ \E w \in Workers : HandlerReturns(w)

\* asyncio runs every ready coroutine in turn and to_thread has a thread for
\* every worker; a call that is not stuck returns
LoopFair ==
    \A w \in Workers :
        /\ WF_vars(LoopClaim(w))
        /\ WF_vars(LoopGetUser(w))
        /\ WF_vars(ForUserReturns(w))
        /\ WF_vars(HandlerReturns(w))

LoopSpec == Init /\ [][LoopNext]_vars /\ LoopFair

\* ============================================================== SchedSpec
\* tasks/scheduler.py beside the worker pool. Scheduler.start and
\* WorkerPool.start are tasks of the same event loop (main.py 87-91), so a
\* scheduler coroutine resumes only when the loop's thread is free. The change
\* feed is empty here: a sync job's incremental read finds no record.
MaxTicks == 2        \* wake-ups of the fallback loop
MaxFullTicks == 1    \* wake-ups of the full-sync loop

\* _fallback_sync_loop wakes: get_active_users answers or raises; with no
\* active user the tick is over
FallbackWake ==
    /\ running
    /\ LoopFree
    /\ sched.pc = "sleeping"
    /\ sched.ticks < MaxTicks
    /\ \E outcome \in {"return", "raise"}, active \in SUBSET Users :
          sched' = IF outcome = "raise"
                   THEN [sched EXCEPT !.ticks = @ + 1, !.raised = TRUE,
                                      !.active = {}, !.queued = <<>>, !.users = {}]
                   ELSE IF active = {}
                   THEN [sched EXCEPT !.ticks = @ + 1, !.raised = FALSE,
                                      !.active = {}, !.queued = <<>>, !.users = {}]
                   ELSE [sched EXCEPT !.pc = "enqueueing", !.raised = FALSE,
                                      !.active = active, !.queued = <<>>, !.users = active]
    /\ UNCHANGED <<jobs, next_id, now, workers, running, hist, last, calls,
                   history, cursor, sync, emails, mail, req, asked>>

\* the users the for loop of _enqueue_fallback_syncs has still to serve
FallbackServed(u) == sched.users \ {u}

\* one pass of `for user in users`: jobs.enqueue("sync", user.id, ...); an
\* exception ends the tick (caught in _fallback_sync_loop)
FallbackEnqueue ==
    /\ LoopFree
    /\ sched.pc = "enqueueing"
    /\ \E u \in sched.users, outcome \in {"return", "raise"} :
          IF outcome = "raise"
          THEN /\ sched' = [sched EXCEPT !.pc = "sleeping", !.ticks = @ + 1, !.raised = TRUE]
               /\ UNCHANGED <<jobs, next_id, hist>>
          ELSE /\ jobs' = Inserted("sync", u, EmptyPayload)
               /\ hist' = HistInserted
               /\ next_id' = next_id + 1
               /\ sched' = IF FallbackServed(u) = {}
                           THEN [sched EXCEPT !.pc = "sleeping", !.ticks = @ + 1,
                                              !.users = {}, !.queued = Append(@, u)]
                           ELSE [sched EXCEPT !.users = FallbackServed(u),
                                              !.queued = Append(@, u)]
    /\ UNCHANGED <<now, workers, running, last, calls, history, cursor, sync, emails, mail, req, asked>>

\* _full_sync_loop wakes and _enqueue_full_syncs queues a sync job with
\* force_full for the active user
FullSyncTick ==
    /\ running
    /\ LoopFree
    /\ sched.fulls < MaxFullTicks
    /\ \E u \in Users :
          jobs' = Inserted("sync", u, [EmptyPayload EXCEPT !.force_full = TRUE])
    /\ hist' = HistInserted
    /\ next_id' = next_id + 1
    /\ sched' = [sched EXCEPT !.fulls = @ + 1]
    /\ UNCHANGED <<now, workers, running, last, calls, history, cursor, sync, emails, mail, req, asked>>

\* mutant: the handler hands the payload's force_full on to sync_user
SyncArgsForwarded(payload) == [notified |-> NoNotified, force_full |-> payload.force_full]

\* _handle_sync: sync_user(job.user_id, gmail_client, history_id), where
\* history_id is payload.get("history_id") ("" from the scheduler); force_full
\* keeps its default
SyncArgs(payload) == [notified |-> NoNotified, force_full |-> FALSE]

\* _handle_sync returns or raises and _process_job reports it: sync_user runs
\* full_sync when force_full is set or no state is stored, else the incremental
\* read
HandleSync(w) ==
    /\ LoopFree
    /\ workers[w].pc = "handler"
    /\ workers[w].job.job_type = "sync"
    /\ LET job == workers[w].job
           args == SyncArgs(job.payload)
       IN \E outcome \in {"return"} \cup Errors :
            IF outcome = "return"
            THEN /\ jobs' = Completed(job.id)
                 /\ hist' = hist
                 /\ IF args.force_full \/ cursor = NoCursor
                    THEN FullSync
                    ELSE /\ cursor' = IF args.notified # NoNotified THEN args.notified ELSE cursor
                         /\ sync' = [IdleSync EXCEPT !.pc = "done"]
                 /\ last' = [op |-> "sync_user", id |-> job.id, arg |-> outcome, pre |-> NoRow]
                 /\ calls' = calls + 1
            ELSE /\ jobs' = Raised(job, outcome)
                 /\ hist' = [hist EXCEPT ![job.id].raises = @ + 1]
                 /\ UNCHANGED <<cursor, sync, last, calls>>
    /\ workers' = [workers EXCEPT ![w] = IdleWorker]
    /\ UNCHANGED <<next_id, now, running, history, emails, mail, req, sched, asked>>

SchedNext ==
    \/ FallbackWake
    \/ FallbackEnqueue
    \/ FullSyncTick
    \/ \E w \in Workers : LoopClaim(w)
    \/ \E w \in Workers : LoopGetUser(w)
    \/ \E w \in Workers : ForUserReturns(w)
    \/ \E w \in Workers : HandleSync(w)

\* asyncio wakes every sleeping coroutine whose time has come and runs every
\* ready one in turn; a call that is not stuck returns
SchedFair ==
    /\ WF_vars(FallbackWake)
    /\ WF_vars(FallbackEnqueue)
    /\ \A w \in Workers :
          /\ WF_vars(LoopClaim(w))
          /\ WF_vars(LoopGetUser(w))
          /\ WF_vars(ForUserReturns(w))
          /\ WF_vars(HandleSync(w))

SchedSpec == Init /\ [][SchedNext]_vars /\ SchedFair

\* =============================================================== RaceSpec
\* The handlers of one thread run by several workers at once. Each handler is
\* a coroutine whose steps are awaited calls; between two of them another
\* worker's handler may run. A handler is cut where that matters: after the
\* record it tests is read (get_by_thread), after the old drafts are trashed,
\* and at its end. The provider and the engines answer every call here (their
\* failures are LifeSpec's), so a job always ends completed.
MaxRaceJobs == 3          \* jobs the change feed enqueues for the thread

\* the thread a job is about: a draft job names it, the others name a message
JobThread(job) ==
    IF job.payload.thread_id # "" THEN job.payload.thread_id
    ELSE ThreadOf(job.payload.message_id)

\* sync_user enqueues a job for a message of the thread (a new message, or the
\* owner's Needs Response or Rework label), once per pass that reads the record
FeedEnqueues ==
    \E t \in {"classify", "manual_draft", "rework"}, m \in LifeMessages :
        /\ next_id <= MaxRaceJobs
        /\ jobs' = Inserted(t, 1, [EmptyPayload EXCEPT !.message_id = m])
        /\ hist' = HistInserted
        /\ next_id' = next_id + 1
        /\ UNCHANGED <<now, workers, running, last, calls, feedVars>>

\* the handler returned: _process_job completes the job, the worker is free
Returned(w) ==
    /\ jobs' = Completed(workers[w].job.id)
    /\ workers' = [workers EXCEPT ![w] = IdleWorker]

\* the handler goes on past its guard, holding the record it read
GoesOn(w, pc, th) ==
    /\ jobs' = jobs
    /\ workers' = [workers EXCEPT ![w] =
          [pc |-> pc, job |-> workers[w].job, email |-> emails[th]]]

\* mutant: the record is tested and written in one step
ClassifyReadLocked(w) ==
    /\ workers[w].pc = "processing"
    /\ workers[w].job.job_type = "classify"
    /\ LET th == JobThread(workers[w].job) IN
       IF emails[th].exists \/ \E v \in Workers : workers[v].pc = "classifying"
       THEN Returned(w) ELSE GoesOn(w, "classifying", th)
    /\ UNCHANGED <<next_id, now, running, hist, last, calls, feedVars>>

\* _handle_classify up to its guard: the message is fetched, the thread's
\* record looked up; with a record the handler returns
ClassifyRead(w) ==
    /\ workers[w].pc = "processing"
    /\ workers[w].job.job_type = "classify"
    /\ LET th == JobThread(workers[w].job) IN
       IF emails[th].exists THEN Returned(w) ELSE GoesOn(w, "classifying", th)
    /\ UNCHANGED <<next_id, now, running, hist, last, calls, feedVars>>

\* _handle_classify from the classifier call on: the label is set, the record
\* upserted (an existing row keeps its status), the draft job enqueued for
\* needs_response
ClassifyWrite(w) ==
    /\ workers[w].pc = "classifying"
    /\ LET job == workers[w].job
           th == JobThread(job)
       IN \E automated \in BOOLEAN, reply \in LlmReplies :
           LET category == EngineClassify(automated, reply)
               queued == IF category = "needs_response"
                         THEN Inserted("draft", job.user_id,
                                 [EmptyPayload EXCEPT !.thread_id = th,
                                                      !.message_id = job.payload.message_id])
                         ELSE jobs
           IN /\ asked' = [asked EXCEPT ![th] = @ + 1]
              /\ mail' = [mail EXCEPT !.labels[th] = @ \cup {category}]
              /\ emails' = IF emails[th].exists THEN emails
                           ELSE [emails EXCEPT ![th] = NewEmail]
              /\ jobs' = [queued EXCEPT ![job.id].status = "completed",
                                        ![job.id].completed_at = now]
              /\ hist' = IF category = "needs_response" THEN HistInserted ELSE hist
              /\ next_id' = IF category = "needs_response" THEN next_id + 1 ELSE next_id
    /\ workers' = [workers EXCEPT ![w] = IdleWorker]
    /\ UNCHANGED <<now, running, last, calls, history, cursor, sync, req, sched>>

\* _handle_draft up to its guard: only a pending record is drafted
DraftRead(w) ==
    /\ workers[w].pc = "processing"
    /\ workers[w].job.job_type = "draft"
    /\ LET th == JobThread(workers[w].job) IN
       IF ~emails[th].exists \/ emails[th].status # "pending"
       THEN Returned(w) ELSE GoesOn(w, "drafting", th)
    /\ UNCHANGED <<next_id, now, running, hist, last, calls, feedVars>>

\* _handle_manual_draft up to the engine call: a drafted record ends it, a
\* missing one is created
ManualRead(w) ==
    /\ workers[w].pc = "processing"
    /\ workers[w].job.job_type = "manual_draft"
    /\ LET th == JobThread(workers[w].job) IN
       IF emails[th].exists /\ emails[th].status = "drafted"
       THEN Returned(w) /\ emails' = emails
       ELSE /\ GoesOn(w, "drafting", th)
            /\ emails' = IF emails[th].exists THEN emails
                         ELSE [emails EXCEPT ![th] = NewEmail]
    /\ UNCHANGED <<next_id, now, running, hist, last, calls, history, cursor, sync, mail, req,
                   sched, asked>>

\* _handle_rework and handle_rework up to the engine call: no record, return;
\* at the limit the thread is skipped; else the draft is reworked
RaceReworkRead(w) ==
    /\ workers[w].pc = "processing"
    /\ workers[w].job.job_type = "rework"
    /\ LET th == JobThread(workers[w].job) IN
       IF ~emails[th].exists
       THEN Returned(w) /\ UNCHANGED <<emails, mail>>
       ELSE IF emails[th].rework_count >= ReworkLimit
       THEN /\ Returned(w)
            /\ emails' = [emails EXCEPT ![th].status = "skipped"]
            /\ mail' = [mail EXCEPT !.labels[th] = (@ \ {"rework"}) \cup {"action_required"}]
       ELSE GoesOn(w, "drafting", th) /\ UNCHANGED <<emails, mail>>
    /\ UNCHANGED <<next_id, now, running, hist, last, calls, history, cursor, sync, req,
                   sched, asked>>

\* the drafts a handler trashes before it creates its own: handle_rework the
\* one the record named when it was read, the draft handlers all of the thread
Trashed(w) ==
    IF workers[w].job.job_type = "rework"
    THEN {d \in mail.drafts : d.id = workers[w].email.draft_id}
    ELSE ThreadDrafts(JobThread(workers[w].job))

\* the engine has written the text; trash_thread_drafts / trash_draft
DraftTrash(w) ==
    /\ workers[w].pc = "drafting"
    /\ mail' = [mail EXCEPT !.drafts = @ \ Trashed(w)]
    /\ workers' = [workers EXCEPT ![w].pc = "creating"]
    /\ UNCHANGED <<jobs, next_id, now, running, hist, last, calls, history, cursor, sync,
                   emails, req, sched, asked>>

\* create_draft, the label exchange, update_draft or increment_rework
DraftCreate(w) ==
    /\ workers[w].pc = "creating"
    /\ LET job == workers[w].job
           th == JobThread(job)
           n == workers[w].email.rework_count
           rework == job.job_type = "rework"
           new == NewDraft(th, rework /\ ReworkNotice(n))
           from == IF rework THEN "rework" ELSE "needs_response"
           to == IF rework /\ n + 1 >= ReworkLimit THEN "action_required" ELSE "outbox"
       IN /\ mail' = [mail EXCEPT !.drafts = @ \cup {new},
                                  !.labels[th] = (@ \ {from}) \cup {to}]
          /\ emails' = [emails EXCEPT
                ![th].status = "drafted",
                ![th].draft_id = new.id,
                ![th].rework_count = IF rework THEN @ + 1 ELSE @]
          /\ calls' = calls + 1
    /\ Returned(w)
    /\ UNCHANGED <<next_id, now, running, hist, last, history, cursor, sync, req, sched, asked>>

RaceNext ==
    \/ FeedEnqueues
    \/ \E w \in Workers : WorkerClaim(w)
    \/ \E w \in Workers : ClassifyRead(w)
    \/ \E w \in Workers : ClassifyWrite(w)
    \/ \E w \in Workers : DraftRead(w)
    \/ \E w \in Workers : ManualRead(w)
    \/ \E w \in Workers : RaceReworkRead(w)
    \/ \E w \in Workers : DraftTrash(w)
    \/ \E w \in Workers : DraftCreate(w)

RaceSpec == Init /\ [][RaceNext]_vars

\* ================================================================ claims
Holds(w, j) == workers[w].pc = "processing" /\ workers[w].job.id = j

\* C1: however the workers' claim_next calls interleave, no job is held by two
\* workers at once: from the claim_next that returned j until that worker
\* reports complete/fail/retry for j, the row is running and no other
\* claim_next returns j.
C1_NoJobHeldTwice ==
    \A w1 \in Workers :
        workers[w1].pc = "processing" =>
            /\ workers[w1].job.id \in DOMAIN jobs
            /\ jobs[workers[w1].job.id].status = "running"
            /\ \A w2 \in Workers \ {w1} : ~Holds(w2, workers[w1].job.id)

C1_Witness ==
    \E w1, w2 \in Workers :
        /\ w1 # w2
        /\ workers[w1].pc = "processing"
        /\ workers[w2].pc = "processing"

\* C2: claim_next returns a job only if just before the call it was pending
\* with attempts < max_attempts and matched the type filter; no other such job
\* was created earlier; the same step made it running with attempts + 1; and it
\* returns none exactly when no such job exists.
C2_ClaimNextContract ==
    last.op = "claim_next" =>
        IF last.id = NoJob
        THEN \A k \in DOMAIN jobs :
                ~ /\ jobs[k].status = "pending"
                  /\ jobs[k].attempts < jobs[k].max_attempts
                  /\ (last.arg # "" => jobs[k].job_type = last.arg)
        ELSE /\ last.pre.status = "pending"
             /\ last.pre.attempts < last.pre.max_attempts
             /\ (last.arg # "" => last.pre.job_type = last.arg)
             /\ \A k \in DOMAIN jobs \ {last.id} :
                    ( /\ jobs[k].status = "pending"
                      /\ jobs[k].attempts < jobs[k].max_attempts
                      /\ (last.arg # "" => jobs[k].job_type = last.arg) )
                    => last.pre.created_at <= jobs[k].created_at
             /\ last.id \in DOMAIN jobs
             /\ jobs[last.id] = [last.pre EXCEPT !.status = "running",
                                                 !.attempts = last.pre.attempts + 1]

\* a filtered claim that passed over an older pending job of another type
C2_Witness ==
    /\ last.op = "claim_next"
    /\ last.id # NoJob
    /\ last.arg # ""
    /\ \E k \in DOMAIN jobs :
          /\ jobs[k].status = "pending"
          /\ jobs[k].created_at < last.pre.created_at

\* C3: attempts equals the number of times claim_next returned the job: 0 at
\* enqueue, one more per claim, untouched by complete, fail and retry (so it
\* never decreases, and claim, retry, claim yields attempts = 2).
C3_AttemptsCountClaims ==
    \A j \in DOMAIN jobs : jobs[j].attempts = hist[j].claims

C3_Witness ==
    /\ last.op = "claim_next"
    /\ last.id # NoJob
    /\ last.pre.error_message # NoError
    /\ jobs[last.id].attempts = 2

\* C4: a completed or failed job is terminal: no later step claims it or
\* changes its status (it can only be deleted by cleanup_old).
C4_TerminalIsFinal ==
    [][\A j \in DOMAIN jobs :
          (Terminal(jobs[j]) /\ j \in DOMAIN jobs') =>
              /\ jobs'[j].status = jobs[j].status
              /\ hist'[j].claims = hist[j].claims
              /\ \A w \in Workers :
                    (workers'[w].pc = "processing" /\ workers[w].pc # "processing")
                        => workers'[w].job.id # j]_vars

C4_Witness ==
    \E j, k \in DOMAIN jobs :
        /\ jobs[j].status = "completed"
        /\ jobs[j].attempts < jobs[j].max_attempts
        /\ jobs[k].status = "failed"
        /\ \E w \in Workers : workers[w].pc = "idle"

\* C5: a job is failed if and only if its handler raised on max_attempts
\* claims: a failed job has attempts = max_attempts, every one of its claims
\* ended in a raise, and it was not claimed after it failed; a job whose handler
\* raised max_attempts times is failed.
C5_FailedIffExhausted ==
    \A j \in DOMAIN jobs :
        /\ jobs[j].status = "failed" =>
              /\ jobs[j].attempts = jobs[j].max_attempts
              /\ hist[j].raises = jobs[j].max_attempts
              /\ hist[j].claims = jobs[j].max_attempts
              /\ \A w \in Workers : ~Holds(w, j)
        /\ hist[j].raises >= jobs[j].max_attempts => jobs[j].status = "failed"

C5_Witness ==
    \E j \in DOMAIN jobs : jobs[j].status = "failed" /\ hist[j].raises = DefaultMaxAttempts

\* C6: the step in which a worker finishes a claimed job reports one outcome
\* for that job and touches no other: completed when the handler returned; when
\* it raised, pending with the error stored if the row's attempts <
\* max_attempts, failed with the error stored otherwise.
C6_OneOutcome ==
    [][\A w \in Workers :
          (workers[w].pc = "processing" /\ workers'[w].pc = "idle") =>
              LET j == workers[w].job.id IN
                /\ j \in DOMAIN jobs /\ j \in DOMAIN jobs'
                /\ jobs[j].status = "running"
                /\ jobs'[j].attempts = jobs[j].attempts
                /\ IF hist'[j].raises = hist[j].raises
                   THEN /\ jobs'[j].status = "completed"
                        /\ jobs'[j].error_message = jobs[j].error_message
                   ELSE /\ jobs'[j].error_message \in Errors
                        /\ jobs'[j].status =
                              IF jobs[j].attempts < jobs[j].max_attempts
                              THEN "pending" ELSE "failed"
                /\ \A k \in DOMAIN jobs \ {j} : k \in DOMAIN jobs' /\ jobs'[k] = jobs[k]]_vars

\* the handler raised on the first claim and returned on the second
C6_Witness ==
    \E j \in DOMAIN jobs :
        /\ jobs[j].status = "completed"
        /\ jobs[j].attempts = 2
        /\ hist[j].raises = 1
        /\ jobs[j].error_message \in Errors

\* C7: complete(id) on a job that is already completed or failed leaves the
\* row (status, error, completed_at) as it was.
C7_CompleteOnTerminalIsNoOp ==
    (last.op = "complete" /\ Terminal(last.pre)) => RowOf(last.id) = last.pre

C9_AbandonedStaysRunning ==
    \A j \in DOMAIN hist :
        hist[j].abandoned =>
            /\ j \in DOMAIN jobs
            /\ jobs[j].status = "running"
            /\ \A w \in Workers : ~Holds(w, j)

\* after the restart a worker is busy with another job
C9_Witness ==
    /\ running
    /\ \E j \in DOMAIN hist : hist[j].abandoned
    /\ \E w \in Workers : workers[w].pc = "processing"

\* the jobs this sync_user call queued for a key (job type, thread)
CallJobs(job_type, th) ==
    {j \in sync.enq : jobs[j].job_type = job_type /\ jobs[j].payload.thread_id = th}

\* the inbox messages of the records the call has processed that route to job_type
BatchMessages(job_type, th) ==
    {<<p, i>> \in (sync.first..(sync.idx - 1)) \X (1..2) :
        /\ i <= Len(history[p].messages_added)
        /\ LET m == history[p].messages_added[i] IN
             /\ InInbox(m)
             /\ ThreadOf(m) = th
             /\ (RouteOf(m) = "agent") = (job_type = "agent_process")}

\* C10: in one sync_user call the new inbox messages yield exactly one job per
\* (job type, thread) that some inbox message of the batch maps to, however many
\* messages of the thread the batch holds and in however many records, and no
\* other job: messages outside the inbox yield none.
C10_OneJobPerThread ==
    /\ \A job_type \in {"classify", "agent_process"}, th \in Threads :
          Cardinality(CallJobs(job_type, th)) =
              IF BatchMessages(job_type, th) = {} THEN 0 ELSE 1
    /\ \A j \in sync.enq :
          /\ j \in DOMAIN jobs
          /\ jobs[j].job_type \in {"classify", "agent_process"}
          /\ jobs[j].payload.thread_id \in Threads
          /\ InInbox(jobs[j].payload.message_id)
          /\ ThreadOf(jobs[j].payload.message_id) = jobs[j].payload.thread_id

\* a finished call over two records that held two inbox messages of one thread
\* on the same route and a message outside the inbox, and queued one job
C10_Witness ==
    /\ sync.pc = "done"
    /\ sync.upto = sync.first + 1
    /\ Cardinality(BatchMessages("classify", "t1")) = 2
    /\ \E p \in sync.first..sync.upto :
          \E i \in 1..Len(history[p].messages_added) : ~InInbox(history[p].messages_added[i])
    /\ Cardinality(sync.enq) = 1

\* the job a label asks for: its type and the action its payload carries
KindType(label) ==
    CASE label = "done" -> "cleanup"
      [] label = "rework" -> "rework"
      [] label = "needs_response" -> "manual_draft"

KindAction(label) == IF label = "done" THEN "done" ELSE ""

\* the jobs this sync_user call queued for a label on a message of thread th
LabelJobs(label, th) ==
    {j \in sync.enq :
        /\ jobs[j].job_type = KindType(label)
        /\ jobs[j].payload.action = KindAction(label)
        /\ ThreadOf(jobs[j].payload.message_id) = th}

\* the label-added events of the processed records that carry label on a
\* message of thread th
BatchLabelEvents(label, th) ==
    {<<p, i>> \in (sync.first..(sync.idx - 1)) \X (1..2) :
        /\ i <= Len(history[p].labels_added)
        /\ label \in history[p].labels_added[i].label_ids
        /\ ThreadOf(history[p].labels_added[i].message_id) = th}

\* C11: when one batch reports the done, rework or needs-response label on two
\* different messages of the same thread, the call queues exactly one job of
\* that label's kind for the thread.
C11_LabelDedupPerThread ==
    \A label \in ActionLabels, th \in Threads :
        (\E e1, e2 \in BatchLabelEvents(label, th) :
            history[e1[1]].labels_added[e1[2]].message_id
                # history[e2[1]].labels_added[e2[2]].message_id)
        => Cardinality(LabelJobs(label, th)) = 1

\* C12: the three labels are handled independently: for every thread and every
\* label that some label-added event of the thread in the batch carries, the
\* call queues exactly one job of that label's kind for the thread.
C12_LabelsIndependent ==
    \A label \in ActionLabels, th \in Threads :
        BatchLabelEvents(label, th) # {} => Cardinality(LabelJobs(label, th)) = 1

\* C13: when the fetch of the change records fails, the stored cursor is left
\* as it was, also when a notified position was passed in. (With records
\* waiting past the cursor, a call that ends without entering the loop is a
\* call whose fetch failed.)
C13_FetchFailureKeepsCursor ==
    [][(Unread # {} /\ sync.pc # "processing" /\ sync'.pc # "processing")
          => cursor' = cursor]_vars

\* C15: the stored cursor is monotonic: no call replaces it by an earlier
\* position, whatever notified position it is given.
C15_CursorMonotonic ==
    [][cursor' >= cursor]_vars

\* C18: over any sequence of sync_user calls each change record is turned into
\* jobs at most once: no two jobs of the table come from the same reported
\* message.
C18_RecordsProcessedOnce ==
    \A j, k \in DOMAIN jobs :
        (jobs[j].job_type = jobs[k].job_type
            /\ jobs[j].payload.message_id = jobs[k].payload.message_id) => j = k

\* C14: the cursor is stored only after every job of the batch was enqueued:
\* while a call is in its loop, and after an enqueue failed, the stored cursor
\* is the one the call read; a call that went through the loop changes it only
\* once the loop is over; and the call that follows a failed one reads the
\* failed batch again.
C14_CursorAfterEnqueues ==
    [][/\ sync'.pc \in {"processing", "failed"} => cursor' = sync'.first - 1
       /\ (sync.pc = "processing" /\ cursor' # cursor) =>
             /\ sync.idx > sync.upto
             /\ sync'.pc = "done"
       /\ (sync.pc = "failed" /\ sync'.pc = "processing") =>
             /\ sync'.first = sync.first
             /\ sync'.upto >= sync.upto]_vars

\* an enqueue failed after an earlier job of the batch was stored, and the
\* batch is still past the cursor
C14_Witness ==
    /\ sync.pc = "failed"
    /\ sync.enq # {}
    /\ sync.first..sync.upto \subseteq Unread

\* a step that is one sync_user call being made
IsSyncUserCall == calls' # calls /\ last'.op = "sync_user"

\* C16: sync_user falls back to full reconciliation when the owner has no
\* stored cursor and when the provider reports the stored cursor too old.
C16_FallsBackToFullSync ==
    [][(IsSyncUserCall /\ (cursor = NoCursor \/ last'.arg = "too_old"))
          => sync'.pc \in {"full_done", "full_failed"}]_vars

\* the classify jobs a step added for thread th
NewClassifyJobs(th) ==
    {j \in DOMAIN jobs' \ DOMAIN jobs :
        jobs'[j].job_type = "classify" /\ jobs'[j].payload.thread_id = th}

\* thread th has a pending classify job
HasPendingClassify(th) ==
    \E j \in DOMAIN jobs :
        /\ jobs[j].job_type = "classify"
        /\ jobs[j].status = "pending"
        /\ jobs[j].payload.thread_id = th

\* C17: a full reconciliation enqueues no classify job for a scanned thread
\* that has a conversation record or a pending classify job, and exactly one
\* for every other scanned thread (so a second run right after it enqueues
\* none).
C17_FullSyncEnqueuesOncePerThread ==
    [][(IsSyncUserCall /\ sync'.pc \in {"full_done", "full_failed"}) =>
          \A th \in {ThreadOf(m) : m \in Scanned} :
              Cardinality(NewClassifyJobs(th)) =
                  IF emails[th].exists \/ HasPendingClassify(th) THEN 0 ELSE 1]_vars

\* every job has run and the cursor is past every change record
AllRan ==
    /\ \A j \in DOMAIN jobs : jobs[j].status \in {"completed", "failed"}
    /\ sync.pc # "processing"
    /\ cursor = Len(history)

\* the rework jobs one pass over the whole feed queues for thread th
ReworksAsked(th) ==
    Cardinality({p \in 1..Len(history) :
        \E i \in 1..Len(history[p].labels_added) :
            /\ "rework" \in history[p].labels_added[i].label_ids
            /\ ThreadOf(history[p].labels_added[i].message_id) = th})

\* every rework request of the feed has had its job enqueued
AllQueued ==
    \A p \in 1..Len(history) : \A i \in 1..Len(history[p].labels_added) :
        "rework" \in history[p].labels_added[i].label_ids =>
            \E j \in DOMAIN jobs :
                /\ jobs[j].job_type = "rework"
                /\ jobs[j].payload.message_id = history[p].labels_added[i].message_id

RunOf(op, th) == calls' = calls + 1 /\ last'.op = op /\ last'.id = th

\* the step leaves the conversation records and the mailbox as they were
NoEffect == emails' = emails /\ mail' = mail

\* the limit branch of a rework request: no draft-engine call, no draft created
\* or trashed, status skipped, rework_count still 3
LimitBranch(th) ==
    /\ ~last'.pre.llm
    /\ mail'.drafts = mail.drafts
    /\ emails'[th].status = "skipped"
    /\ emails'[th].rework_count = ReworkLimit
    /\ emails'[th].draft_id = emails[th].draft_id

Exchanged(th) == (mail.labels[th] \ {"rework"}) \cup {"action_required"}

C23_CheckSent ==
    [][\A th \in LifeThreads :
        RunOf("handle_sent_detection", th)
        => IF ~emails[th].exists \/ emails[th].draft_id = 0
              \/ emails[th].draft_id \in DraftIds
           THEN last'.arg = "false" /\ NoEffect
           ELSE last'.arg = "true" /\ emails'[th].status = "sent"]_vars

TerminalStatuses == {"archived", "skipped", "sent"}

SourceStatuses(op) ==
    IF op = "handle_done" THEN {"pending", "drafted"} ELSE {"drafted"}

\* C25: a transition whose source status does not hold is a no-op: done
\* archives only from pending or drafted, sent detection and rework act only
\* from drafted; otherwise records and mailbox are unchanged and the call
\* returns false.
C25_TransitionsGuarded ==
    [][\A th \in LifeThreads :
        \A op \in {"handle_done", "handle_sent_detection", "handle_rework"} :
            (RunOf(op, th)
                /\ ~(emails[th].exists /\ emails[th].status \in SourceStatuses(op)))
            => (NoEffect /\ last'.arg = "false")]_vars

\* the answers of the classifier that give no usable category
Unusable == {"unknown", "missing", "not_json", "not_object", "failed"}

\* a draft job was enqueued by the step
DraftEnqueued(th) ==
    /\ next_id' = next_id + 1
    /\ jobs'[next_id].job_type = "draft"
    /\ jobs'[next_id].payload.thread_id = th

C28_DraftOnlyFromPending ==
    [][\A th \in LifeThreads :
        RunOf("draft", th)
        => /\ ~(emails[th].exists /\ emails[th].status = "pending")
                => (~last'.pre.llm /\ NoEffect)
           /\ (emails'[th].draft_id # emails[th].draft_id \/ ~(mail'.drafts \subseteq mail.drafts))
                => /\ emails[th].status = "pending"
                   /\ emails'[th].status = "drafted"
                   /\ emails'[th].draft_id \in {d.id : d \in mail'.drafts}]_vars

C28_Witness ==
    /\ last.op = "draft"
    /\ last.arg = "return"
    /\ ~last.pre.llm
    /\ emails["t1"].status = "drafted"
    /\ emails["t1"].draft_id \in DraftIds

\* the outcomes of a request that all failed with a transient error
AllTransient(outs) ==
    \A i \in 1..Len(outs) : outs[i] \in {"network", "http429", "http500", "http503"}

\* the waits made so far are base_delay, 2 base_delay, 4 base_delay, ...
Doubling(r) ==
    \A k \in 1..Len(r.slept) :
        r.slept[k] = IF k = 1 THEN r.base_delay ELSE 2 * r.slept[k - 1]

\* C29: execute_with_retry invokes the request at most 1 + max_retries times,
\* only after transient failures, and waits base_delay * 2^k before retry k; it
\* returns the first successful result, re-raises the last error after
\* 1 + max_retries transient failures with max_retries waits, and raises a
\* non-retryable error at once: no further attempt and no wait after it.
C29_RetryContract ==
    req.pc # "idle" =>
       LET n == Len(req.outcomes) IN
       /\ n <= 1 + req.max_retries
       /\ AllTransient(SubSeq(req.outcomes, 1, n - 1))
       /\ Doubling(req)
       /\ Len(req.slept) = IF req.pc = "loop" /\ n <= req.max_retries THEN n ELSE n - 1
       /\ req.pc = "returned" => req.outcomes[n] = "ok" /\ req.result = "ok"
       /\ req.pc = "raised" =>
             /\ req.outcomes[n] # "ok"
             /\ req.result = req.outcomes[n]
             /\ AllTransient(req.outcomes) => n = 1 + req.max_retries
       /\ req.pc \in {"loop", "sleeping"} => AllTransient(req.outcomes)
       /\ (n > 0 /\ req.outcomes[n] \in {"http400", "http404"}) => req.pc = "raised"
       /\ (n > 0 /\ req.outcomes[1] \in {"http400", "http404"}) =>
             n = 1 /\ req.slept = <<>>

\* three transient failures, waits of 1, 2 and 4, and the fourth attempt answers
C29_Witness ==
    /\ req.pc = "returned"
    /\ req.max_retries = 3
    /\ req.base_delay = 1
    /\ Len(req.outcomes) = 4
    /\ req.slept = <<1, 2, 4>>

\* the last error is re-raised after 1 + max_retries transient failures
C29_WitnessExhausted ==
    /\ req.pc = "raised"
    /\ req.max_retries = 2
    /\ req.outcomes = <<"network", "http503", "http429">>
    /\ req.result = "http429"
    /\ req.slept = <<2, 4>>

IsPending(j) == j \in DOMAIN jobs /\ jobs[j].status = "pending"

\* every pending job is claimed, and a worker that holds a job finishes it
\* unless it is the worker that gets stuck
OthersProgress ==
    /\ \A j \in 1..MaxJobs : IsPending(j) ~> ~IsPending(j)
    /\ \A w \in Workers :
          (workers[w].pc \in {"processing", "for_user", "handler"})
             ~> (workers[w].pc = "idle" \/ Stuck(w))

\* C30: while one worker is stuck anywhere in its job processing, every other
\* pending job is still eventually claimed and processed by the other workers.
C30_StuckWorkerBlocksNoOther == OthersProgress

\* the same while the stuck call is one made through asyncio.to_thread
C30_StuckThreadBlocksNoOther ==
    [](\A w \in Workers : workers[w].pc # "for_user_stuck") => OthersProgress

\* a job waits while a worker is stuck inside for_user
C30_PendingBehindForUser ==
    /\ \E w \in Workers : workers[w].pc = "for_user_stuck"
    /\ \E j \in DOMAIN jobs : jobs[j].status = "pending"
    /\ \E w \in Workers : workers[w].pc = "idle"

\* C32: a classify run that asked the classifier enqueues exactly one draft job
\* for the thread and leaves the conversation pending when the result is
\* needs_response; on any other result it enqueues no job and the conversation
\* is skipped.
C32_ClassifyRoutesByCategory ==
    [][\A th \in LifeThreads :
        (RunOf("classify", th) /\ last'.pre.llm) =>
            IF last'.arg = "needs_response"
            THEN DraftEnqueued(th) /\ emails'[th].status = "pending"
            ELSE jobs' = jobs /\ emails'[th].status = "skipped"]_vars

\* C33: the cleanup job of a deleted message (message_id, no thread_id) runs
\* sent detection on the thread of the stored conversation: a drafted thread
\* whose draft has left the mailbox becomes sent.
C33_CheckSentResolvesThread ==
    [][\A m \in LifeMessages :
        LET th == ThreadOf(m) IN
        (RunOf("cleanup", th)
            /\ emails[th].exists /\ emails[th].status = "drafted"
            /\ emails[th].draft_id \notin DraftIds)
        => emails'[th].status = "sent"]_vars

C39_ReworkKeepsDraft ==
    [][\A th \in LifeThreads :
        (RunOf("handle_rework", th) /\ emails'[th].status = "drafted"
            /\ emails[th].draft_id \in DraftIds)
        => emails'[th].draft_id \in {d.id : d \in mail'.drafts}]_vars

\* C40: a handler run in which the fetch of the message or thread or the
\* creation of the draft failed with an error ends with an exception (the job
\* is retried or failed), never with a return (the job is completed).
C40_FailureIsNotCompleted ==
    [][\A th \in LifeThreads :
        (calls' = calls + 1 /\ last'.id = th /\ last'.pre.failed) => last'.arg = "raise"]_vars

\* a tick that ended without an exception queued one sync job for each active
\* user and nothing else
TickQueuedEachOnce ==
    (sched.pc = "sleeping" /\ sched.ticks > 0 /\ ~sched.raised) =>
        /\ Len(sched.queued) = Cardinality(sched.active)
        /\ {sched.queued[i] : i \in 1..Len(sched.queued)} = sched.active

\* the fallback loop makes its next tick, whatever the state of the pool and
\* whether or not the last tick raised
NextTickComes == \A n \in 0..(MaxTicks - 1) : (sched.ticks = n) ~> (sched.ticks = n + 1)

\* C31: every interval the fallback loop enqueues exactly one sync job for each
\* active owner, whatever the state of the worker pool, and a tick that raised
\* is followed by the next tick.
C31_FallbackTicks == []TickQueuedEachOnce /\ NextTickComes

\* the same while no worker is stuck inside for_user
C31_FallbackTicksLoopFree ==
    [](\A w \in Workers : workers[w].pc # "for_user_stuck") => C31_FallbackTicks

\* a tick raised and the next tick queued the owner's sync job
C31_TickAfterRaise ==
    /\ sched.ticks = 2
    /\ sched.pc = "sleeping" /\ ~sched.raised /\ sched.queued = <<1>>
    /\ \E j \in DOMAIN jobs : jobs[j].job_type = "sync" /\ ~jobs[j].payload.force_full
    /\ Cardinality({j \in DOMAIN jobs : ~jobs[j].payload.force_full}) = 1

\* C34: a sync job with force_full in its payload is run as a full
\* reconciliation, a sync job without it as the incremental read from the
\* stored cursor.
C34_ForceFullRunsFullSync ==
    [][\A w \in Workers :
        (workers[w].pc = "handler" /\ workers'[w].pc = "idle"
            /\ jobs'[workers[w].job.id].status = "completed")
        => (sync'.pc \in {"full_done", "full_failed"}
                <=> (workers[w].job.payload.force_full \/ cursor = NoCursor))]_vars

\* C35: in every reachable state every job has attempts <= max_attempts, its
\* handler has been started at most max_attempts times, and no job is pending
\* with attempts = max_attempts (a pending job is always claimable).
C35_AttemptsBounded ==
    /\ \A j \in DOMAIN jobs :
          /\ jobs[j].attempts <= jobs[j].max_attempts
          /\ ~(jobs[j].status = "pending" /\ jobs[j].attempts = jobs[j].max_attempts)
          /\ (jobs[j].status = "pending" => Eligible(j, ""))
    /\ \A j \in DOMAIN hist : hist[j].claims <= DefaultMaxAttempts

\* a job failed by its last attempt: claimed max_attempts times, raised each time
C35_Witness ==
    \E j \in DOMAIN jobs :
        /\ jobs[j].status = "failed"
        /\ jobs[j].attempts = jobs[j].max_attempts
        /\ hist[j].claims = jobs[j].max_attempts
        /\ hist[j].raises = jobs[j].max_attempts

\* every job in the table ends completed or failed
EveryJobEnds ==
    \A j \in 1..MaxJobs :
        (j \in DOMAIN jobs) ~> (j \in DOMAIN jobs /\ Terminal(jobs[j]))

\* C36: with the pool running and never shut down, under fair scheduling and
\* handlers (and collaborator calls) that always return or raise, every
\* enqueued job eventually reaches status completed or failed.
C36_EveryJobEnds ==
    [](running /\ \A w \in Workers : ~Stuck(w)) => EveryJobEnds

\* a job completed on a later attempt while another was failed by its last
C36_Witness ==
    /\ \E j \in DOMAIN jobs :
          jobs[j].status = "completed" /\ hist[j].raises > 0
    /\ \E j \in DOMAIN jobs :
          jobs[j].status = "failed" /\ hist[j].raises = jobs[j].max_attempts
    /\ \A w \in Workers : workers[w].pc = "idle"

\* the draft jobs in the table for a thread
DraftJobs(th) ==
    {j \in DOMAIN jobs : jobs[j].job_type = "draft" /\ jobs[j].payload.thread_id = th}

\* C37: when several classify jobs for a thread are processed by different
\* workers in any interleaving, the external classifier is invoked at most once
\* for the thread and at most one draft job is enqueued for it.
C37_ClassifiedOnce ==
    \A th \in LifeThreads :
        /\ asked[th] <= 1
        /\ Cardinality(DraftJobs(th)) <= 1

\* no job of the thread is pending or in a worker's hands
Finished ==
    /\ \A w \in Workers : workers[w].pc = "idle"
    /\ \A j \in DOMAIN jobs : Terminal(jobs[j])

====
